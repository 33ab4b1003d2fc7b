-------------------------------- MODULE MCCalls --------------------------------
(***************************************************************************)
(* Two hubs: a routine of one watches a stream of a routine of the other,  *)
(* which calls it back while it does.                                      *)
(***************************************************************************)
EXTENDS Calls, TLC

MCHub     == {"near", "far"}
MCHome    == "asker" :> "near" @@ "maker" :> "far"
MCConnId  == "near" :> "local" @@ "far" :> "s1"
MCFrom    == [c \in Call |-> IF c = "back" THEN "maker" ELSE "asker"]
MCTo      == [c \in Call |-> IF c = "back" THEN "asker" ELSE "maker"]
MCKind    == [c \in Call |-> IF c = "watch" THEN "stream" ELSE "req"]
MCId      == [c \in Call |-> IF c = "back" THEN "r2" ELSE "r1"]

===============================================================================
