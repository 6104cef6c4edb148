---------------------------- MODULE MCTranscript ----------------------------
(* Transcript with ids of which one is a prefix of another. *)
EXTENDS Transcript

MCTaskIds == {<<"t">>, <<"t", "1">>, <<"u">>, <<>>}
MCSuffix == <<"0">>
MCForeign == <<"task">>
MCToolId == <<"tool">>
=============================================================================
