-------------------------- MODULE MC_XtestGuardian --------------------------
\* Instances of XtestGuardian, and the frames its messages travel in.
EXTENDS XtestGuardian

Wire == INSTANCE XtestWire

CONSTANTS shift, a

OneScript == <<a>>
OneModifier == <<shift>>

\* Every message is read as it was written, and of a damaged frame no byte is
\* ignored: it is turned down or it is the frame of just the message that is
\* read (encode_frame, decode_frame).  Checked once, before the first operation.
FramesAreExact == guardian = "start" /\ call = None /\ losses = 0 => Wire!EveryFrameIsExact
=============================================================================
