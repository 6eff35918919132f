---------------------------- MODULE MCChatStream ----------------------------
EXTENDS ChatStream

=============================================================================
