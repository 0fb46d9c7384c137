-------------------------- MODULE MCAmqpConnection --------------------------
EXTENDS AmqpConnection
=============================================================================
