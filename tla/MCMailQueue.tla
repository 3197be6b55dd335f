----------------------------- MODULE MCMailQueue -----------------------------
EXTENDS MailQueue
=============================================================================
