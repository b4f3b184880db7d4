------------------------------ MODULE MCClient -------------------------------
(* Client: one run with a video and a song, another with a song of the same name. *)
EXTENDS Client

CONSTANTS one, other, clip, song, tune

MCClients == {one, other}
MCTodo    == [c \in MCClients |-> IF c = one THEN <<clip, song>> ELSE <<tune>>]
MCVideos  == {clip}
MCDest    == [f \in {clip, song, tune} |-> IF f = clip THEN "clip" ELSE "song"]
MCStems   == <<"speech", "music">>
=============================================================================
