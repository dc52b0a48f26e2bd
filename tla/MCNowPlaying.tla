----------------------------- MODULE MCNowPlaying -----------------------------
(* Small instance of NowPlayingLink: a content of one fragment, one of two. *)
EXTENDS NowPlayingLink

MCCount == [c \in {"text", "silence"} |-> IF c = "text" THEN 2 ELSE 1]
=============================================================================
