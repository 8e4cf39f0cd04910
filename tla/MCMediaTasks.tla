---------------------------- MODULE MCMediaTasks ----------------------------
EXTENDS MediaTasks

\* Two interruptions show how often an image is paid for; a song and a video have
\* many more states, and one.
Extras == [k \in Kinds |-> IF k = "image" THEN 2 ELSE 1]
=============================================================================
