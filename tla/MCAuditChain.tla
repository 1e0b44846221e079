---------------------------- MODULE MCAuditChain ----------------------------
(* An instance of AuditChain: receipts that end the session, one that opens a       *)
(* snapshot, and one that does neither.                                             *)
EXTENDS AuditChain

SomeEvents == {"vault.conflict", "snapshot.intent", "session.revoked", "session.deleted"}
=============================================================================
