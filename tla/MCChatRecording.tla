-------------------------- MODULE MCChatRecording --------------------------
EXTENDS ChatRecording
=============================================================================
