----------------------------- MODULE MCVoiceLink -----------------------------
\* Model-checking instance of VoiceLink: the constants are in the cfg files.
EXTENDS VoiceLink
=============================================================================
