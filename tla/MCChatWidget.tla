---------------------------- MODULE MCChatWidget ----------------------------
EXTENDS ChatWidget, TLC

CONSTANT ann

MCUsers == {ann}
=============================================================================
