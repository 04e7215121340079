---------------------------- MODULE MCSelection ----------------------------
(* A short text and one of three sentences, and rewritings of them: each   *)
(* passes the checks or fails one of them, is within the window of its     *)
(* tier or not, scores well or not, parses or not.                         *)
EXTENDS Selection

T(ws) == [i \in DOMAIN ws |-> Lower(ws[i])]

MCContractions == ("can't" :> <<"cannot">>) @@ ("isn't" :> <<"is", "not">>)
MCStopwords == {"is", "not", "just", "so"}
MCAllowlist == {"big"}
MCDroppable == {"large", "moreover"}
MCNumerals == {"12"}

\* IBM is not ...: 12
About(ws) ==
  << <<[word |-> "ibm", form |-> "upper"]>> \o T(ws) \o <<[word |-> "12", form |-> "number"]>> >>

Slow == About(<<"is", "not", "large", "slow", "slow">>)

Three == << T(<<"moreover", "sun", "warms", "not", "just", "earth", "soil">>),
            T(<<"moon", "cannot", "light", "rooms">>),
            T(<<"wind", "cools", "large", "towns", "well">>) >>

Contracted == << T(<<"sun", "warms", "earth", "soil">>),
                 T(<<"moon", "can't", "light", "rooms">>),
                 T(<<"wind", "cools", "big", "towns", "well">>) >>

Shuffled == << T(<<"sun", "moon", "wind", "soil", "cannot">>),
               T(<<"warms", "earth", "light", "cools", "rooms", "big">>),
               T(<<"towns", "well">>) >>

MCOriginals == {Slow, Three}

Cand(t, wording, score, similarity, distance, parses) ==
  [text |-> t, wording |-> wording, score |-> score,
   similarity |-> similarity, distance |-> distance, parses |-> parses]

MCRewritings ==
  (Slow :> { Cand(Slow, 0, 300, 1000, 0, FALSE),
             Cand(About(<<"isn't", "big", "slow", "slow">>), 0, 280, 700, 50, TRUE),
             Cand(About(<<"isn't", "slow">>), 0, 300, 900, 200, TRUE),
             Cand(About(<<"isn't", "big">>), 2, 300, 900, 200, TRUE) })
  @@
  (Three :> { Cand(Three, 2, 300, 1000, 200, TRUE),
              Cand(Contracted, 0, 300, 900, 200, TRUE),
              Cand(Shuffled, 0, 250, 700, 200, FALSE) })

MCIntensities == {-5, 66, 100}
MCBaselines == {239, 240, 399, 400}
=============================================================================
