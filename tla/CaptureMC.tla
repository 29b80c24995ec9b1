----------------------------- MODULE CaptureMC -----------------------------
EXTENDS Capture
CONSTANTS a, b, d, x, y
=============================================================================
