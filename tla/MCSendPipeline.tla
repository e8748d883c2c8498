---------------------------- MODULE MCSendPipeline ----------------------------
\* An instance of SendPipeline.  MCUses: PCM pushed in whole frames; capture on the worker,
\* with Opus errors; mutes; parts of frames; and, of whole frames that are pushed, everything
\* at once.
EXTENDS SendPipeline

MCUses == {{}, {"driver", "error"}, {"mute"}, {"partial"}, Features \ {"driver", "partial"}}
=============================================================================
