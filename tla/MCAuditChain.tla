---------------------------- MODULE MCAuditChain ----------------------------
EXTENDS AuditChain
=============================================================================
