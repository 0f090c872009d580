-------------------------- MODULE MCNotificationHub --------------------------
(* Instances of NotificationHub for TLC.                                      *)
EXTENDS NotificationHub, TLC

CONSTANTS t1, t2, s1, s2, e1, e2, e3

\* s1 subscribes to its tenant, s2 is a server worker of all tenants.
TwoTenants == [x \in Subs \cup Events |->
                 IF x = s2 THEN AllTenants ELSE IF x = e3 THEN t2 ELSE t1]
=============================================================================
