------------------------------ MODULE MCMatch -------------------------------
(***************************************************************************)
(* A small catalogue for Match, with the shapes of card the rules tell     *)
(* apart: blood_pact (free, gains mana, once a turn), frost (cheap, in     *)
(* both main phases), revelation (draws) and haste (main1 only, dear).     *)
(***************************************************************************)
EXTENDS Match

CONSTANTS blood_pact, frost, revelation, haste

MCSpells == {blood_pact, frost, revelation, haste}

MCCost == [s \in MCSpells |-> IF s = haste THEN 3 ELSE IF s = blood_pact THEN 0 ELSE 1]

MCCastPhases == [s \in MCSpells |-> IF s = haste THEN {"main1"} ELSE MainPhases]

MCPerTurn == [s \in MCSpells |-> IF s = blood_pact THEN 1 ELSE NoLimit]

MCDrawAmount == [s \in MCSpells |-> IF s = revelation THEN 1 ELSE 0]

MCManaGain == [s \in MCSpells |-> IF s = blood_pact THEN 2 ELSE 0]

(* White can run out of cards, Black has two copies of the limited card. *)
MCDecks ==
    [p \in Player |->
        [s \in MCSpells |->
            CASE s = blood_pact -> IF p = Black THEN 2 ELSE 1
              [] s = frost      -> 1
              [] s = revelation -> IF p = White THEN 1 ELSE 0
              [] s = haste      -> 1]]
=============================================================================
