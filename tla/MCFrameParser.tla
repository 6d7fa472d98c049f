--------------------------- MODULE MCFrameParser ---------------------------
EXTENDS FrameParser

\* One payload byte, 'a'.
MCPayload == {97}

=============================================================================
