-------------------------------- MODULE MCScuIo --------------------------------
(* A small instance of ScuIo: the newline is byte 1, a letter is 2. *)
EXTENDS ScuIo

\* Lines shorter than, as long as and longer than a chunk, with and without an end; a line
\* that begins with a NUL, and one with a NUL in it.
MCContents == {<<>>, <<2, 1, 2>>, <<2, 2, 2, 1>>, <<0, 1>>, <<2, 0, 1>>}
\* The second text is found in the third twice, and three of its bytes hold the third twice.
MCTexts == {<<>>, <<2>>, <<2, 2>>}
MCBufferSizes == {3}
MCCounts == {0, 1, 3}
================================================================================
