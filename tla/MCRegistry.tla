----------------------------- MODULE MCRegistry ------------------------------
(* Instances of Registry for TLC. *)
EXTENDS Registry, TLC

MCNames == <<"links", "routes">>
MCKeys == <<"k", "l">>
MCChars == {Backslash, Quote, Newline, "SOH", "STX", "=", ",", "a", "b", "k", "l", "n"}

\* Label sets whose texts differ only by what an escape does: a newline against
\* a backslash and an n, a quote that would close the value early, no labels.
PrintableLabels ==
    { <<>>,
      "k" :> <<Newline>>,
      "k" :> <<Backslash, "n">>,
      ("k" :> <<"a">>) @@ ("l" :> <<"b">>),
      "k" :> <<"a", Quote, ",", "l", "=", Quote, "b">> }

\* Two values that differ in a control character alone.
ControlLabels == { "k" :> <<"a">>, "k" :> <<"a", "SOH">>, "l" :> <<"a">>, "l" :> <<"b">> }
=============================================================================
