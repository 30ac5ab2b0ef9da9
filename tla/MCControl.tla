----------------------------- MODULE MCControl -----------------------------
(* Instances of Control for TLC: who asks for what in each run.            *)
EXTENDS Control, TLC

CONSTANTS r1, r2, r3, r4, r5, t1, t2, mA, mB

MCRoleOf == [ann |-> "admin", bob |-> "operator", vic |-> "viewer"]
MCOperator == DOMAIN MCRoleOf
Crew == {"ann", "bob"}

Call(kind, op, verb, tok) ==
  [kind |-> kind, op |-> op, verb |-> verb, tok |-> tok, on |-> TRUE, override |-> FALSE]

\* Map mB lacks the ack and start controls that mA defines.
MCDefines == mA :> {"remote_start", "exercise", "ack_alarm"} @@ mB :> {"exercise"}
MCAtsDefines == {"ats_test", "ats_force_assert", "ats_force_release", "ats_inhibit_assert"}

\* A trusted link with the utility down or up, a lost link.
MCAtsSeen ==
  {[comms |-> "healthy", trusted |-> TRUE, fault |-> FALSE, normal |-> n] : n \in BOOLEAN}
    \cup {[comms |-> "lost", trusted |-> TRUE, fault |-> FALSE, normal |-> FALSE]}

\* Two operators, two tokens, two commands that may present either token.
CommandJobs ==
  { (r1 :> Call("issue", "ann", v, t1)) @@ (r2 :> Call("issue", "bob", "any", t2)) @@
    (r3 :> Call("execute", "ann", "start", t1)) @@ (r4 :> Call("execute", o, w, y)) :
    v \in {"start", "any"}, y \in {t1, t2}, o \in Crew, w \in {"start", "exercise"} }

\* One token, presented to both surfaces at once or twice to the ATS surface.
AtsJobs ==
  { (r1 :> Call("issue", "ann", "any", t1)) @@ (r2 :> Call("issue", o, "any", t2)) @@
    (r3 :> Call(k, "ann", IF k = "ats" THEN "test" ELSE "start", t1)) @@
    (r4 :> [Call("ats", "ann", "force_transfer", t1) EXCEPT !.on = n]) :
    o \in {"ann", "vic"}, k \in {"ats", "execute"}, n \in BOOLEAN }

TokenJobs == CommandJobs \cup AtsJobs

\* A command in flight and an ATS assert that waits behind it for its token.
GuardJobs ==
  { (r1 :> Call("issue", "ann", "any", t1)) @@ (r2 :> Call("issue", "ann", "any", t2)) @@
    (r3 :> Call("execute", "ann", "start", t1)) @@
    (r4 :> [Call("ats", "ann", "force_transfer", t2) EXCEPT !.override = v]) :
    v \in BOOLEAN }

\* An alarm ack racing register-map reloads, with or without a command that
\* keeps the control lock busy.
ReloadJobs ==
  { (r1 :> Call("issue", "ann", "any", t1)) @@ (r2 :> Call("issue", "ann", "ack", t2)) @@
    (r3 :> c) @@ (r4 :> Call("ack", "ann", "ack", t2)) @@ (r5 :> Call("reload", "ann", "reload", t1)) :
    c \in {Call("execute", "ann", "start", t1), Call("reload", "ann", "reload", t1)} }

\* A command, an ATS command and a reload contending for both locks.
LockJobs ==
  { (r1 :> Call("issue", "ann", "any", t1)) @@ (r2 :> Call("issue", "ann", "any", t2)) @@
    (r3 :> Call("execute", "ann", "start", t1)) @@ (r4 :> Call("ats", "ann", "test", t2)) @@
    (r5 :> Call("reload", "ann", "reload", t1)) }

ContendingJobs == ReloadJobs \cup LockJobs

\* A trusted link, or none.
MCAtsLink == {a \in MCAtsSeen : a.comms = "lost" \/ a.normal}

=============================================================================
