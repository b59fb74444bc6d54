---------------------------- MODULE MCTrxIntake -----------------------------
(***************************************************************************)
(* Three messages: transactions that are all good, one that fails between  *)
(* two good ones, or a message that is no transaction before two that are. *)
(***************************************************************************)
EXTENDS TrxIntake

MCContents == {<<"good", "good", "good">>, <<"good", "fails", "good">>,
               <<"malformed", "good", "good">>}
=============================================================================
