--------------------------------- MODULE Texts ---------------------------------
(***************************************************************************)
(* The refusals of the server and what the client makes of them: the texts *)
(* of the REST answers (serverTexts.ts), and the codes and details of the  *)
(* refusals of a match (adapter.ts, errorMessage.ts).  Constants only.     *)
(***************************************************************************)

(***************************************************************************)
(* The texts of the server, each with the code it stands for, and the      *)
(* codes the adapter finds for them; a text it does not know has a code    *)
(* only by its status.                                                     *)
(***************************************************************************)
HTTP ==
  [invalidBody |-> "invalid_request", missingFields |-> "missing_fields", usernameTooShort |-> "username_too_short",
   usernameTooLong |-> "username_too_long", usernameChars |-> "username_invalid_chars", emailInvalid |-> "email_invalid",
   passwordTooShort |-> "password_too_short", passwordTooLong |-> "password_too_long", passwordUpper |-> "password_needs_uppercase",
   passwordLower |-> "password_needs_lowercase", passwordDigit |-> "password_needs_digit", internal |-> "internal_error",
   taken |-> "username_or_email_taken", badCredentials |-> "invalid_credentials", tokenGeneration |-> "internal_error",
   refreshInvalid |-> "refresh_token_invalid", notRefreshToken |-> "token_invalid", userNotFound |-> "user_not_found",
   profileError |-> "internal_error", collectionError |-> "internal_error", deckLimit |-> "deck_limit", deckName |-> "deck_name_invalid",
   deckUnknown |-> "deck_unknown_spell", deckCopies |-> "deck_too_many_copies", deckNotOwned |-> "deck_not_owned",
   deckNotValid |-> "deck_not_valid", deckLast |-> "deck_last", deckNotFound |-> "deck_not_found", challengeSelf |-> "challenge_self",
   challengeNoPlayer |-> "challenge_player_not_found", challengeOffline |-> "challenge_offline",
   challengeTargetBusy |-> "challenge_target_busy", challengeSelfBusy |-> "challenge_self_busy", challengeNotFound |-> "challenge_not_found",
   consentRequired |-> "consent_required", termsVersion |-> "terms_version_invalid", wrongPassword |-> "wrong_password",
   accountAbsent |-> "account_not_found", friendSelf |-> "friend_self", friendAlready |-> "friend_already",
   friendPending |-> "friend_pending", friendLimit |-> "friend_limit", friendTheirLimit |-> "friend_their_limit",
   friendPendingLimit |-> "friend_pending_limit", friendRequestAbsent |-> "friend_request_not_found", friendAbsent |-> "friend_not_found",
   blockSelf |-> "block_self", blockAbsent |-> "block_not_found", searchShort |-> "search_too_short", tokenMissing |-> "token_missing",
   tokenInvalid |-> "token_invalid_or_expired", ticketInvalid |-> "ticket_invalid", ticketGeneration |-> "internal_error",
   tooManyRequests |-> "rate_limited", invalidId |-> "invalid_id", dbError |-> "internal_error", notFound |-> "not_found",
   methodNotAllowed |-> "method_not_allowed"]
HTTP_ERROR_TEXTS ==
  [internal_error |-> {"internal", "tokenGeneration", "ticketGeneration", "profileError", "collectionError", "dbError"},
   invalid_request |-> {"invalidBody"}, deck_limit |-> {"deckLimit"}, deck_name_invalid |-> {"deckName"}, deck_unknown_spell |-> {"deckUnknown"},
   deck_too_many_copies |-> {"deckCopies"}, deck_not_owned |-> {"deckNotOwned"}, deck_not_valid |-> {"deckNotValid"},
   deck_last |-> {"deckLast"}, deck_not_found |-> {"deckNotFound"}, challenge_self |-> {"challengeSelf"},
   challenge_player_not_found |-> {"challengeNoPlayer"}, challenge_offline |-> {"challengeOffline"},
   challenge_target_busy |-> {"challengeTargetBusy"}, challenge_self_busy |-> {"challengeSelfBusy"},
   challenge_not_found |-> {"challengeNotFound"}, consent_required |-> {"consentRequired"}, terms_version_invalid |-> {"termsVersion"},
   wrong_password |-> {"wrongPassword"}, account_not_found |-> {"accountAbsent"}, friend_self |-> {"friendSelf"},
   friend_already |-> {"friendAlready"}, friend_pending |-> {"friendPending"}, friend_limit |-> {"friendLimit"},
   friend_their_limit |-> {"friendTheirLimit"}, friend_pending_limit |-> {"friendPendingLimit"},
   friend_request_not_found |-> {"friendRequestAbsent"}, friend_not_found |-> {"friendAbsent"}, block_self |-> {"blockSelf"},
   block_not_found |-> {"blockAbsent"}, search_too_short |-> {"searchShort"}, missing_fields |-> {"missingFields"},
   username_too_short |-> {"usernameTooShort"}, username_too_long |-> {"usernameTooLong"}, username_invalid_chars |-> {"usernameChars"},
   email_invalid |-> {"emailInvalid"}, password_too_short |-> {"passwordTooShort"}, password_too_long |-> {"passwordTooLong"},
   password_needs_uppercase |-> {"passwordUpper"}, password_needs_lowercase |-> {"passwordLower"},
   password_needs_digit |-> {"passwordDigit"}, username_or_email_taken |-> {"taken"}, invalid_credentials |-> {"badCredentials"},
   refresh_token_invalid |-> {"refreshInvalid"}, token_invalid_or_expired |-> {"tokenInvalid"}, token_invalid |-> {"notRefreshToken"},
   token_missing |-> {"tokenMissing"}, ticket_invalid |-> {"ticketInvalid"}, user_not_found |-> {"userNotFound"},
   rate_limited |-> {"tooManyRequests"}, invalid_id |-> {"invalidId"}, not_found |-> {"notFound"},
   method_not_allowed |-> {"methodNotAllowed"}]
NoCode == "none"
matchErrorText(text) ==
  IF \E c \in DOMAIN HTTP_ERROR_TEXTS : text \in HTTP_ERROR_TEXTS[c]
  THEN CHOOSE c \in DOMAIN HTTP_ERROR_TEXTS : text \in HTTP_ERROR_TEXTS[c] ELSE NoCode
(* Nothing answered, or a body that is not the server's: a proxy's.        *)
Foreign == [network |-> "network_error", proxy404 |-> "not_found", proxy503 |-> "service_unavailable", proxy502 |-> NoCode]
interpretHttpResponse(text) == IF text \in DOMAIN Foreign THEN Foreign[text] ELSE matchErrorText(text)

(***************************************************************************)
(* The refusals of a match travel with a code and details; what the player *)
(* is told depends on the code and, of some codes, on one detail.          *)
(***************************************************************************)
GAME_ERROR_CODES ==
  {"invalid_payload", "unknown_message_type", "rate_limited", "game_over", "replaced_by_new_connection", "deck_invalid",
   "challenge_declined", "challenge_expired", "challenge_unavailable", "bot_unavailable", "not_your_turn", "wrong_phase",
   "illegal_move", "piece_frozen", "move_blocked", "unknown_spell", "card_not_in_hand", "insufficient_mana",
   "invalid_target_count", "invalid_target", "illegal_position", "limit_reached", "no_effect", "invalid_choice",
   "draw_offer_pending", "no_draw_offer", "own_draw_offer", "internal_error"}
PROTOCOL_ERROR_CODES ==
  {"invalid_payload", "unknown_message_type", "rate_limited", "game_over", "replaced_by_new_connection", "deck_invalid",
   "challenge_declined", "challenge_expired", "challenge_unavailable", "bot_unavailable", "not_your_turn", "wrong_phase",
   "illegal_move", "piece_frozen", "move_blocked", "unknown_spell", "card_not_in_hand", "insufficient_mana",
   "invalid_target_count", "invalid_target", "illegal_position", "limit_reached", "no_effect", "invalid_choice",
   "draw_offer_pending", "no_draw_offer", "own_draw_offer", "internal_error"}
NoDetail == "none"
Sides == {"white", "black"}
(* The detail of each refusal that has one: the reason, the king, the      *)
(* casts allowed (one, or more).                                           *)
Details ==
  [invalid_target |-> {NoDetail, "off_board", "duplicate", "not_empty", "wall", "no_piece", "wrong_owner", "missing_effect", "too_far",
                       "rank", "king", "piece_kind", "max_pawns", "promotion", "pawn_rank", "no_capture"},
   no_effect |-> {"no_pieces", "empty_graveyard", "no_castling", "no_runes", "already_granted", "aura_present"},
   invalid_choice |-> {"missing", "not_allowed"}, move_blocked |-> {"wall", "no_capture"},
   illegal_position |-> Sides, limit_reached |-> {"once", "more"}]
WS == UNION {{[code |-> c, detail |-> d] : d \in IF c \in DOMAIN Details THEN Details[c] ELSE {NoDetail}} : c \in GAME_ERROR_CODES}
interpretWsError(error, harmed) ==
  [code |-> IF harmed = "code" \/ error.code \notin PROTOCOL_ERROR_CODES THEN NoCode ELSE error.code,
   detail |-> IF harmed = "detail" THEN NoDetail ELSE error.detail]
Explained ==
  [invalid_target |-> {"off_board", "duplicate", "not_empty", "no_piece", "wrong_owner", "king", "piece_kind", "missing_effect",
                       "too_far", "rank", "max_pawns", "promotion", "pawn_rank", "wall", "no_capture"},
   no_effect |-> {"no_pieces", "empty_graveyard", "no_castling", "no_runes", "aura_present", "already_granted"},
   invalid_choice |-> {"missing", "not_allowed"}, move_blocked |-> {"wall", "no_capture"}, limit_reached |-> {"once"}]
protocolErrorMessage(info, myColor) ==
  CASE info.code \in DOMAIN Explained /\ info.detail \in Explained[info.code] -> [code |-> info.code, about |-> info.detail]
    [] info.code = "illegal_position" /\ info.detail \in Sides ->
         [code |-> info.code, about |-> IF info.detail = myColor THEN "own king" ELSE "check"]
    [] OTHER -> [code |-> info.code, about |-> NoDetail]
-----------------------------------------------------------------------------
(* What the client takes for something else, or cannot explain. *)
Misread ==
  {text \in DOMAIN HTTP : matchErrorText(text) # HTTP[text]}
  \cup {error \in WS : \E myColor \in Sides :
           LET Told(harmed) == protocolErrorMessage(interpretWsError(error, harmed), myColor)
           IN  \/ Told("no").code # error.code \/ (error.detail \notin {NoDetail, "more"} /\ Told("no").about = NoDetail)
               \/ Told("detail") # [code |-> error.code, about |-> NoDetail]
               \/ Told("code") # [code |-> NoCode, about |-> NoDetail]}

(* Every text of the server is understood, and every reason it gives is    *)
(* explained; with its detail damaged a refusal is told less exactly, and  *)
(* never as another one ("Il testo del server non viene mai mostrato").    *)
ASSUME TextsAreKnown == Misread = {}
================================================================================
