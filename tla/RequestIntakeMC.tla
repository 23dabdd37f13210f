--------------------------- MODULE RequestIntakeMC ---------------------------
(***************************************************************************)
(* Three requests. Two have prompts, of which one continues the other: one *)
(* says its length and the other does not. The third is any other kind.    *)
(***************************************************************************)
EXTENDS RequestIntake

SomeRequests == {"first", "second", "third"}

SomeContentLength(r) == IF r = "first" THEN 1 ELSE -1
SomeBodies(r) == IF r = "third" THEN Kinds \ {"prompt"} ELSE {"prompt"}
SomePrompt(r) == IF r = "second" THEN <<"a", "b", "c">> ELSE <<"a", "b">>
=============================================================================
