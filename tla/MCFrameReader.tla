--------------------------- MODULE MCFrameReader ---------------------------
EXTENDS FrameReader

\* Two distinct payload bytes, 'a' and 'b'.
MCByte == {97, 98}

=============================================================================
