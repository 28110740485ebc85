--------------------------- MODULE MCUploadClient ---------------------------
(***************************************************************************)
(* A small instance of UploadClient: two chunks, one of them twice in the  *)
(* list, three peers, waves of one chunk and merkle payments of two.       *)
(***************************************************************************)
EXTENDS UploadClient

CONSTANTS a, b

MCList == <<a, a, b>>

MCPlans == {<<"data", "auto">>, <<"data", "single">>, <<"file", "merkle">>,
            <<"file", "auto">>, <<"external", "single">>}

MCAgain == {<<"data", "single">>, <<"file", "merkle">>, <<"file", "auto">>}
=============================================================================
