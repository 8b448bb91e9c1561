--------------------------- MODULE MCChatGateway ---------------------------
EXTENDS ChatGateway
=============================================================================
