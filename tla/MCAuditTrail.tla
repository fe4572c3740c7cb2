---------------------------- MODULE MCAuditTrail ----------------------------
(***************************************************************************)
(* Instances of AuditTrail for TLC: a worker started with "-Q audit", and  *)
(* the one of docker-compose.yml, which consumes Celery's default queue.   *)
(***************************************************************************)
EXTENDS AuditTrail

ServesAudit   == {"audit"}
ServesDefault == {"celery"}
=============================================================================
