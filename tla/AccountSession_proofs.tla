----------------------- MODULE AccountSession_proofs -----------------------
(* AccountSession's safety for any set of accounts and any number of       *)
(* faults.                                                                 *)
EXTENDS AccountSession, TLAPS

\* Nothing is left with the service but an identity it failed to remove.
Empty ==
  /\ tunnel = Nobody /\ provider = Nobody
  /\ identity = Nobody \/ "identityKept" \in history

\* A pass that was let past the checks of the bootstrap or the reconcile.
Starting == worker \in {"session", "adopt", "decline", "start", "provide"}

\* The identity is that of the stored credentials, or a failure left it.
OwnIdentity == "lost" \in history \/ "identityKept" \in history \/ identity \in {Nobody, jwt}

\* A registration is of an account, beside nobody signed in; past its first
\* check it is current only while no sign-out has begun. A sign-out that runs
\* has signed the app out.
RegInv ==
  /\ reg # "none" => "loggedIn" \notin flags /\ regFor \in Accounts
  /\ reg \in {"asked", "apply"} /\ regCurrent = "yes" => tail = "off"
  /\ tail # "off" => "loggedIn" \notin flags

\* Credentials of a signed-out app are about to go, were kept by a failure, or
\* are the ones a registration has just stored.
CredentialsInv ==
  jwt # Nobody /\ "loggedIn" \notin flags /\ "kept" \notin history
    => \/ tail \in {"lock", "local"}
       \/ reg = "apply" /\ regCurrent = "yes" /\ tail = "off"

\* What a sign-out owes: the tail owes what it is about to deliver, and what a
\* delivery leaves is empty until it is settled.
TailInv ==
  /\ tail = "deliver" => "owed" \in flags
  /\ tail = "settled" \/ worker = "settled" => Empty

\* A signed-out app has left nothing, or still owes it, or the tail is on its
\* way to owe it, or it was lost; and so has one without credentials, which is
\* what the next launch goes by.
EmptyInv ==
  /\ \/ "loggedIn" \in flags \/ "owed" \in flags \/ "lost" \in history
     \/ tail \in {"lock", "local", "owe"} \/ Empty
  /\ \/ jwt # Nobody \/ "owed" \in flags \/ "lost" \in history \/ tail = "owe" \/ Empty

\* The service's identity is that of the stored credentials, or a sign-out of
\* it is owed, about to be owed or lost, or it could not be removed.
IdentityInv == OwnIdentity \/ "owed" \in flags \/ tail = "owe"

\* A pass that starts something has credentials, and the identity is theirs,
\* although the account may have signed out since.
StartInv ==
  Starting => /\ jwt # Nobody
              /\ OwnIdentity
              /\ "loggedIn" \in flags \/ tail = "lock"

IInv ==
  /\ TypeOK /\ SlotHasWorker /\ RegInv /\ CredentialsInv /\ TailInv /\ EmptyInv /\ IdentityInv
  /\ StartInv /\ RunsOnOwnIdentity

\* Writing or removing the marker, which may fail, keeps the files and the bound.
LEMMA MarkKeeps ==
  ASSUME TypeOK, NEW changed \in SUBSET {"marker", "saved"}, Mark(changed)
  PROVE  files' \subseteq {"marker", "saved"} /\ faults' \in 0 .. MaxFaults
<1>1. files \subseteq {"marker", "saved"} /\ faults \in 0 .. MaxFaults
  BY DEF TypeOK
<1>2. CASE NoFault /\ files' = changed
  BY <1>1, <1>2 DEF NoFault
<1>3. CASE Fault /\ UNCHANGED files
  BY <1>1, <1>3, FaultsAssumption DEF Fault
<1> QED
  BY <1>2, <1>3 DEF Mark

\* A request keeps the invariant.
LEMMA RequestKeeps == ASSUME IInv, \E kind \in Kinds : RequestSession(kind) PROVE IInv'
<1>1. CASE \E kind \in Kinds : RequestSession(kind)
  <2>1. TypeOK'
    BY <1>1
    DEF IInv, TypeOK, Someone, Kinds, RequestSession, Has, Ask, Covered, service, disk,
        signIn
  <2>2. SlotHasWorker'
    BY <1>1, AccountsAssumption
    DEF IInv, TypeOK, SlotHasWorker, RequestSession, Has, Ask, Covered, service,
        disk, signIn
  <2>3. TailInv'
    BY <1>1, AccountsAssumption
    DEF IInv, TypeOK, TailInv, Empty, RequestSession, Has, Ask, Covered, service,
        disk, signIn
  <2>4. StartInv'
    BY <1>1, AccountsAssumption
    DEF IInv, TypeOK, StartInv, OwnIdentity, Starting, IdentityInv, RequestSession, Has,
        Ask, Covered, service, disk, signIn
  <2>5. RegInv' /\ CredentialsInv' /\ EmptyInv' /\ IdentityInv' /\ RunsOnOwnIdentity'
    BY <1>1
    DEF IInv, RegInv, CredentialsInv, EmptyInv, IdentityInv, OwnIdentity, RunsOnOwnIdentity,
        Empty, RequestSession, service, disk, signIn
  <2> QED
    BY <2>1, <2>2, <2>3, <2>4, <2>5 DEF IInv
<1> QED
  BY <1>1

\* A step of the session worker keeps the invariant.
LEMMA WorkerKeeps == ASSUME IInv, WorkerLocks \/ Worker PROVE IInv'
<1>1. CASE WorkerLocks
  <2>1. TypeOK'
    BY <1>1 DEF IInv, TypeOK, Someone, Kinds, WorkerLocks, Has, service, disk, signIn
  <2>2. SlotHasWorker'
    BY <1>1, AccountsAssumption
    DEF IInv, TypeOK, SlotHasWorker, WorkerLocks, Has, service, disk, signIn
  <2>3. TailInv'
    BY <1>1, AccountsAssumption
    DEF IInv, TypeOK, TailInv, Empty, WorkerLocks, Has, service, disk, signIn
  <2>4. StartInv'
    BY <1>1, AccountsAssumption
    DEF IInv, TypeOK, StartInv, OwnIdentity, Starting, IdentityInv, WorkerLocks, Has,
        service, disk, signIn
  <2>5. RegInv' /\ CredentialsInv' /\ EmptyInv' /\ IdentityInv' /\ RunsOnOwnIdentity'
    BY <1>1
    DEF IInv, RegInv, CredentialsInv, EmptyInv, IdentityInv, OwnIdentity, RunsOnOwnIdentity,
        Empty, WorkerLocks, service, disk, signIn
  <2> QED
    BY <2>1, <2>2, <2>3, <2>4, <2>5 DEF IInv
<1>2. CASE WorkerTakes
  <2>1. TypeOK'
    BY <1>2 DEF IInv, TypeOK, Someone, Kinds, WorkerTakes, service, disk, signIn
  <2>2. SlotHasWorker'
    BY <1>2, AccountsAssumption
    DEF IInv, TypeOK, SlotHasWorker, WorkerTakes, service, disk, signIn
  <2>3. TailInv'
    BY <1>2, AccountsAssumption
    DEF IInv, TypeOK, TailInv, Empty, WorkerTakes, service, disk, signIn
  <2>4. StartInv'
    BY <1>2, AccountsAssumption
    DEF IInv, TypeOK, StartInv, OwnIdentity, Starting, IdentityInv, WorkerTakes, service,
        disk, signIn
  <2>5. RegInv' /\ CredentialsInv' /\ EmptyInv' /\ IdentityInv' /\ RunsOnOwnIdentity'
    BY <1>2
    DEF IInv, RegInv, CredentialsInv, EmptyInv, IdentityInv, OwnIdentity, RunsOnOwnIdentity,
        Empty, WorkerTakes, service, disk, signIn
  <2> QED
    BY <2>1, <2>2, <2>3, <2>4, <2>5 DEF IInv
<1>3. CASE WorkerDelivers
  <2>1. TypeOK'
    <3>1. ({tunnel, provider, identity, jwt, regFor} \subseteq Someone)'
      BY <1>3, FaultsAssumption
      DEF IInv, TypeOK, WorkerDelivers, DeliverSucceeds, NoFault, Dialled, Do, Requests,
          DeliverFails, ScheduleServiceRetry, service, Fault, disk, signIn, Someone
    <3>2. (/\ files \subseteq {"marker", "saved"}
           /\ flags \subseteq {"loggedIn", "owed", "device", "userDisconnected", "recoveryNeeded"})'
      BY <1>3, FaultsAssumption
      DEF IInv, TypeOK, WorkerDelivers, DeliverSucceeds, NoFault, Dialled, Do, Requests,
          DeliverFails, ScheduleServiceRetry, service, Fault, disk, signIn
    <3>3. (/\ faults \in 0 .. MaxFaults
           /\ history \subseteq {"lost", "kept", "identityKept", "missed"})'
      <4>1. (faults \in 0 .. MaxFaults)'
        BY <1>3, FaultsAssumption
        DEF IInv, TypeOK, WorkerDelivers, DeliverSucceeds, NoFault, DeliverFails,
            ScheduleServiceRetry, Fault
      <4>2. (history \subseteq {"lost", "kept", "identityKept", "missed"})'
        BY <1>3
        DEF IInv, TypeOK, WorkerDelivers, DeliverSucceeds, NoFault, DeliverFails,
            ScheduleServiceRetry, Fault
      <4> QED
        BY <4>1, <4>2
    <3>4. (/\ up \in {"up", "down"}
           /\ link \in {"none", "live", "dead"} /\ slot \in Kinds \cup {"none"}
           /\ req \in Kinds \cup {"none"})'
      BY <1>3, FaultsAssumption
      DEF IInv, TypeOK, WorkerDelivers, DeliverSucceeds, NoFault, Dialled, Do, Requests,
          DeliverFails, ScheduleServiceRetry, service, Fault, disk, signIn, Kinds
    <3> QED
      BY <1>3, <3>1, <3>2, <3>3, <3>4
      DEF IInv, TypeOK, WorkerDelivers, DeliverSucceeds, NoFault, Dialled, Do, Requests,
          DeliverFails, ScheduleServiceRetry, service, Fault, disk, signIn
  <2>2. SlotHasWorker'
    BY <1>3, AccountsAssumption
    DEF IInv, TypeOK, SlotHasWorker, WorkerDelivers, DeliverSucceeds, NoFault, Dialled,
        Do, Requests, DeliverFails, ScheduleServiceRetry, service, Fault, disk, signIn
  <2>3. RegInv'
    BY <1>3, AccountsAssumption
    DEF IInv, TypeOK, RegInv, WorkerDelivers, DeliverSucceeds, NoFault, Dialled, Do, Requests,
        DeliverFails, ScheduleServiceRetry, service, Fault, disk, signIn
  <2>4. CredentialsInv'
    BY <1>3, AccountsAssumption
    DEF IInv, TypeOK, CredentialsInv, RegInv, WorkerDelivers, DeliverSucceeds, NoFault,
        Dialled, Do, Requests, DeliverFails, ScheduleServiceRetry, service, Fault, disk,
        signIn
  <2>5. TailInv'
    BY <1>3, AccountsAssumption
    DEF IInv, TypeOK, TailInv, Empty, WorkerDelivers, DeliverSucceeds, NoFault, Dialled,
        Do, Requests, DeliverFails, ScheduleServiceRetry, service, Fault, disk, signIn
  <2>6. EmptyInv'
    BY <1>3, AccountsAssumption
    DEF IInv, TypeOK, EmptyInv, Empty, RegInv, TailInv, StartInv, OwnIdentity, Starting,
        WorkerDelivers, DeliverSucceeds, NoFault, Dialled, Do, Requests, DeliverFails,
        ScheduleServiceRetry, service, Fault, disk, signIn
  <2>7. IdentityInv'
    BY <1>3, AccountsAssumption
    DEF IInv, TypeOK, IdentityInv, OwnIdentity, TailInv, EmptyInv, RegInv, StartInv, Starting,
        Empty, WorkerDelivers, DeliverSucceeds, NoFault, Dialled, Do, Requests, DeliverFails,
        ScheduleServiceRetry, service, Fault, disk, signIn
  <2>8. StartInv'
    BY <1>3, AccountsAssumption
    DEF IInv, TypeOK, StartInv, OwnIdentity, Starting, IdentityInv, WorkerDelivers,
        DeliverSucceeds, NoFault, Dialled, Do, Requests, DeliverFails, ScheduleServiceRetry,
        service, Fault, disk, signIn
  <2>9. RunsOnOwnIdentity'
    BY <1>3, AccountsAssumption
    DEF IInv, TypeOK, RunsOnOwnIdentity, StartInv, OwnIdentity, Starting, WorkerDelivers,
        DeliverSucceeds, NoFault, Dialled, Do, Requests, DeliverFails, ScheduleServiceRetry,
        service, Fault, disk, signIn
  <2> QED
    BY <2>1, <2>2, <2>3, <2>4, <2>5, <2>6, <2>7, <2>8, <2>9 DEF IInv
<1>4. CASE WorkerSettles
  <2>1. TypeOK'
    <3>1. files' \subseteq {"marker", "saved"} /\ faults' \in 0 .. MaxFaults
      <4>1. files \ {"marker"} \in SUBSET {"marker", "saved"} /\ Mark(files \ {"marker"})
        BY <1>4 DEF IInv, TypeOK, WorkerSettles, Settled
      <4> QED
        BY <4>1, MarkKeeps DEF IInv
    <3> QED
      BY <1>4, <3>1 DEF IInv, TypeOK, WorkerSettles, Settled, Has, service, signIn
  <2>2. SlotHasWorker'
    BY <1>4, AccountsAssumption
    DEF IInv, TypeOK, SlotHasWorker, WorkerSettles, Settled, Mark, Fault, NoFault, Has,
        service, signIn
  <2>3. RegInv'
    BY <1>4, AccountsAssumption
    DEF IInv, TypeOK, RegInv, WorkerSettles, Settled, Mark, Fault, NoFault, Has, service, signIn
  <2>4. CredentialsInv'
    BY <1>4, AccountsAssumption
    DEF IInv, TypeOK, CredentialsInv, RegInv, WorkerSettles, Settled, Mark, Fault, NoFault,
        Has, service, signIn
  <2>5. TailInv'
    BY <1>4, AccountsAssumption
    DEF IInv, TypeOK, TailInv, Empty, WorkerSettles, Settled, Mark, Fault, NoFault, Has,
        service, signIn
  <2>6. EmptyInv'
    BY <1>4, AccountsAssumption
    DEF IInv, TypeOK, EmptyInv, Empty, RegInv, TailInv, StartInv, OwnIdentity, Starting,
        WorkerSettles, Settled, Mark, Fault, NoFault, Has, service, signIn
  <2>7. IdentityInv'
    BY <1>4, AccountsAssumption
    DEF IInv, TypeOK, IdentityInv, OwnIdentity, TailInv, EmptyInv, RegInv, StartInv, Starting,
        Empty, WorkerSettles, Settled, Mark, Fault, NoFault, Has, service, signIn
  <2>8. StartInv'
    BY <1>4, AccountsAssumption
    DEF IInv, TypeOK, StartInv, OwnIdentity, Starting, IdentityInv, WorkerSettles, Settled,
        Mark, Fault, NoFault, Has, service, signIn
  <2>9. RunsOnOwnIdentity'
    BY <1>4 DEF IInv, RunsOnOwnIdentity, WorkerSettles, service, signIn
  <2> QED
    BY <2>1, <2>2, <2>3, <2>4, <2>5, <2>6, <2>7, <2>8, <2>9 DEF IInv
<1>5. CASE PassReconciles
  <2>1. TypeOK'
    BY <1>5 DEF IInv, TypeOK, Someone, Kinds, PassReconciles, Reconcile, service, disk, signIn
  <2>2. SlotHasWorker'
    BY <1>5, AccountsAssumption
    DEF IInv, TypeOK, SlotHasWorker, PassReconciles, Reconcile, service, disk,
        signIn
  <2>3. TailInv'
    BY <1>5, AccountsAssumption
    DEF IInv, TypeOK, TailInv, Empty, PassReconciles, Reconcile, service, disk,
        signIn
  <2>4. StartInv'
    BY <1>5, AccountsAssumption
    DEF IInv, TypeOK, StartInv, OwnIdentity, Starting, IdentityInv, PassReconciles,
        Reconcile, service, disk, signIn
  <2>5. RegInv' /\ CredentialsInv' /\ EmptyInv' /\ IdentityInv' /\ RunsOnOwnIdentity'
    BY <1>5
    DEF IInv, RegInv, CredentialsInv, EmptyInv, IdentityInv, OwnIdentity, RunsOnOwnIdentity,
        Empty, PassReconciles, service, disk, signIn
  <2> QED
    BY <2>1, <2>2, <2>3, <2>4, <2>5 DEF IInv
<1>6. CASE PassDisconnects
  <2>1. TypeOK'
    BY <1>6, FaultsAssumption
    DEF IInv, TypeOK, Someone, Kinds, PassDisconnects, NoFault, StopTunnel, service, Fault,
        Drop, Kept, Reconcile, signIn
  <2>2. SlotHasWorker'
    BY <1>6, AccountsAssumption
    DEF IInv, TypeOK, SlotHasWorker, PassDisconnects, NoFault, StopTunnel,
        service, Fault, Drop, Kept, Reconcile, signIn
  <2>3. RegInv'
    BY <1>6, AccountsAssumption
    DEF IInv, TypeOK, RegInv, PassDisconnects, NoFault, StopTunnel, service, Fault, Drop,
        Kept, Reconcile, signIn
  <2>4. CredentialsInv'
    BY <1>6, AccountsAssumption
    DEF IInv, TypeOK, CredentialsInv, RegInv, PassDisconnects, NoFault, StopTunnel, service,
        Fault, Drop, Kept, Reconcile, signIn
  <2>5. TailInv'
    BY <1>6, AccountsAssumption
    DEF IInv, TypeOK, TailInv, Empty, PassDisconnects, NoFault, StopTunnel,
        service, Fault, Drop, Kept, Reconcile, signIn
  <2>6. EmptyInv'
    BY <1>6, AccountsAssumption
    DEF IInv, TypeOK, EmptyInv, Empty, RegInv, TailInv, StartInv, OwnIdentity, Starting,
        PassDisconnects, NoFault, StopTunnel, service, Fault, Drop, Kept, Reconcile, signIn
  <2>7. IdentityInv'
    BY <1>6, AccountsAssumption
    DEF IInv, TypeOK, IdentityInv, OwnIdentity, TailInv, EmptyInv, RegInv, StartInv, Starting,
        Empty, PassDisconnects, NoFault, StopTunnel, service, Fault, Drop, Kept, Reconcile,
        signIn
  <2>8. StartInv'
    BY <1>6, AccountsAssumption
    DEF IInv, TypeOK, StartInv, OwnIdentity, Starting, IdentityInv, PassDisconnects,
        NoFault, StopTunnel, service, Fault, Drop, Kept, Reconcile, signIn
  <2>9. RunsOnOwnIdentity'
    BY <1>6, AccountsAssumption
    DEF IInv, TypeOK, RunsOnOwnIdentity, StartInv, OwnIdentity, Starting, PassDisconnects,
        NoFault, StopTunnel, service, Fault, Drop, Kept, Reconcile, signIn
  <2> QED
    BY <2>1, <2>2, <2>3, <2>4, <2>5, <2>6, <2>7, <2>8, <2>9 DEF IInv
<1>7. CASE PassDecides
  <2>1. TypeOK'
    <3>1. ({tunnel, provider, identity, jwt, regFor} \subseteq Someone)'
      BY <1>7, FaultsAssumption
      DEF IInv, TypeOK, PassDecides, Kept, Reads, Fault, NoFault, Reconcile, Has, Drop,
          service, signIn, Someone
    <3>2. (/\ files \subseteq {"marker", "saved"}
           /\ flags \subseteq {"loggedIn", "owed", "device", "userDisconnected", "recoveryNeeded"})'
      BY <1>7, FaultsAssumption
      DEF IInv, TypeOK, PassDecides, Kept, Reads, Fault, NoFault, Reconcile, Has, Drop,
          service, signIn
    <3>3. (/\ faults \in 0 .. MaxFaults
           /\ history \subseteq {"lost", "kept", "identityKept", "missed"})'
      BY <1>7, FaultsAssumption
      DEF IInv, TypeOK, PassDecides, Kept, Reads, Fault, NoFault, Reconcile, Has, Drop,
          service, signIn
    <3>4. (/\ up \in {"up", "down"}
           /\ link \in {"none", "live", "dead"} /\ slot \in Kinds \cup {"none"}
           /\ req \in Kinds \cup {"none"})'
      BY <1>7, FaultsAssumption
      DEF IInv, TypeOK, PassDecides, Kept, Reads, Fault, NoFault, Reconcile, Has, Drop,
          service, signIn, Kinds
    <3> QED
      BY <1>7, <3>1, <3>2, <3>3, <3>4
      DEF IInv, TypeOK, PassDecides, Kept, Reads, Fault, NoFault, Reconcile, Has, Drop,
          service, signIn
  <2>2. SlotHasWorker'
    BY <1>7, AccountsAssumption
    DEF IInv, TypeOK, SlotHasWorker, PassDecides, Kept, Reads, Fault, NoFault,
        Reconcile, Has, Drop, service, signIn
  <2>3. RegInv'
    BY <1>7, AccountsAssumption
    DEF IInv, TypeOK, RegInv, PassDecides, Kept, Reads, Fault, NoFault, Reconcile, Has,
        Drop, service, signIn
  <2>4. CredentialsInv'
    BY <1>7, AccountsAssumption
    DEF IInv, TypeOK, CredentialsInv, RegInv, PassDecides, Kept, Reads, Fault, NoFault,
        Reconcile, Has, Drop, service, signIn
  <2>5. TailInv'
    BY <1>7, AccountsAssumption
    DEF IInv, TypeOK, TailInv, Empty, PassDecides, Kept, Reads, Fault, NoFault,
        Reconcile, Has, Drop, service, signIn
  <2>6. EmptyInv'
    BY <1>7, AccountsAssumption
    DEF IInv, TypeOK, EmptyInv, Empty, RegInv, TailInv, StartInv, OwnIdentity, Starting,
        PassDecides, Kept, Reads, Fault, NoFault, Reconcile, Has, Drop, service, signIn
  <2>7. IdentityInv'
    BY <1>7, AccountsAssumption
    DEF IInv, TypeOK, IdentityInv, OwnIdentity, TailInv, EmptyInv, RegInv, StartInv, Starting,
        Empty, PassDecides, Kept, Reads, Fault, NoFault, Reconcile, Has, Drop, service,
        signIn
  <2>8. StartInv'
    BY <1>7, AccountsAssumption
    DEF IInv, TypeOK, StartInv, OwnIdentity, Starting, IdentityInv, PassDecides, Kept,
        Reads, Fault, NoFault, Reconcile, Has, Drop, service, signIn
  <2>9. RunsOnOwnIdentity'
    BY <1>7 DEF IInv, RunsOnOwnIdentity, PassDecides, service, signIn
  <2> QED
    BY <2>1, <2>2, <2>3, <2>4, <2>5, <2>6, <2>7, <2>8, <2>9 DEF IInv
<1>8. CASE BootChecks
  <2>1. TypeOK'
    BY <1>8 DEF IInv, TypeOK, Someone, Kinds, BootChecks, Has, Dialled, service, disk, signIn
  <2>2. SlotHasWorker'
    BY <1>8, AccountsAssumption
    DEF IInv, TypeOK, SlotHasWorker, BootChecks, Has, Dialled, service, disk,
        signIn
  <2>3. TailInv'
    BY <1>8, AccountsAssumption
    DEF IInv, TypeOK, TailInv, Empty, BootChecks, Has, Dialled, service, disk,
        signIn
  <2>4. StartInv'
    BY <1>8, AccountsAssumption
    DEF IInv, TypeOK, StartInv, OwnIdentity, Starting, IdentityInv, BootChecks, Has,
        Dialled, service, disk, signIn
  <2>5. RegInv' /\ CredentialsInv' /\ EmptyInv' /\ IdentityInv' /\ RunsOnOwnIdentity'
    BY <1>8
    DEF IInv, RegInv, CredentialsInv, EmptyInv, IdentityInv, OwnIdentity, RunsOnOwnIdentity,
        Empty, BootChecks, service, disk, signIn
  <2> QED
    BY <2>1, <2>2, <2>3, <2>4, <2>5 DEF IInv
<1>9. CASE BootDeclines
  <2>1. TypeOK'
    BY <1>9
    DEF IInv, TypeOK, Someone, Kinds, BootDeclines, Has, Reconcile, service, disk, signIn
  <2>2. SlotHasWorker'
    BY <1>9, AccountsAssumption
    DEF IInv, TypeOK, SlotHasWorker, BootDeclines, Has, Reconcile, service, disk,
        signIn
  <2>3. RegInv'
    BY <1>9, AccountsAssumption
    DEF IInv, TypeOK, RegInv, BootDeclines, Has, Reconcile, service, disk, signIn
  <2>4. CredentialsInv'
    BY <1>9, AccountsAssumption
    DEF IInv, TypeOK, CredentialsInv, RegInv, BootDeclines, Has, Reconcile, service, disk,
        signIn
  <2>5. TailInv'
    BY <1>9, AccountsAssumption
    DEF IInv, TypeOK, TailInv, Empty, BootDeclines, Has, Reconcile, service,
        disk, signIn
  <2>6. EmptyInv'
    BY <1>9, AccountsAssumption
    DEF IInv, TypeOK, EmptyInv, Empty, RegInv, TailInv, StartInv, OwnIdentity, Starting,
        BootDeclines, Has, Reconcile, service, disk, signIn
  <2>7. IdentityInv'
    BY <1>9, AccountsAssumption
    DEF IInv, TypeOK, IdentityInv, OwnIdentity, TailInv, EmptyInv, RegInv, StartInv, Starting,
        Empty, BootDeclines, Has, Reconcile, service, disk, signIn
  <2>8. StartInv'
    BY <1>9, AccountsAssumption
    DEF IInv, TypeOK, StartInv, OwnIdentity, Starting, IdentityInv, BootDeclines, Has,
        Reconcile, service, disk, signIn
  <2>9. RunsOnOwnIdentity'
    BY <1>9 DEF IInv, RunsOnOwnIdentity, BootDeclines, service, disk, signIn
  <2> QED
    BY <2>1, <2>2, <2>3, <2>4, <2>5, <2>6, <2>7, <2>8, <2>9 DEF IInv
<1>10. CASE BootRetries
  <2>1. TypeOK'
    BY <1>10
    DEF IInv, TypeOK, Someone, Kinds, BootRetries, Has, Dialled, Reconcile,
        ScheduleServiceRetry, service, disk, signIn
  <2>2. SlotHasWorker'
    BY <1>10, AccountsAssumption
    DEF IInv, TypeOK, SlotHasWorker, BootRetries, Has, Dialled, Reconcile,
        ScheduleServiceRetry, service, disk, signIn
  <2>3. RegInv'
    BY <1>10, AccountsAssumption
    DEF IInv, TypeOK, RegInv, BootRetries, Has, Dialled, Reconcile, ScheduleServiceRetry,
        service, disk, signIn
  <2>4. CredentialsInv'
    BY <1>10, AccountsAssumption
    DEF IInv, TypeOK, CredentialsInv, RegInv, BootRetries, Has, Dialled, Reconcile,
        ScheduleServiceRetry, service, disk, signIn
  <2>5. TailInv'
    BY <1>10, AccountsAssumption
    DEF IInv, TypeOK, TailInv, Empty, BootRetries, Has, Dialled, Reconcile,
        ScheduleServiceRetry, service, disk, signIn
  <2>6. EmptyInv'
    BY <1>10, AccountsAssumption
    DEF IInv, TypeOK, EmptyInv, Empty, RegInv, TailInv, StartInv, OwnIdentity, Starting,
        BootRetries, Has, Dialled, Reconcile, ScheduleServiceRetry, service, disk, signIn
  <2>7. IdentityInv'
    BY <1>10, AccountsAssumption
    DEF IInv, TypeOK, IdentityInv, OwnIdentity, TailInv, EmptyInv, RegInv, StartInv, Starting,
        Empty, BootRetries, Has, Dialled, Reconcile, ScheduleServiceRetry, service, disk,
        signIn
  <2>8. StartInv'
    BY <1>10, AccountsAssumption
    DEF IInv, TypeOK, StartInv, OwnIdentity, Starting, IdentityInv, BootRetries, Has,
        Dialled, Reconcile, ScheduleServiceRetry, service, disk, signIn
  <2>9. RunsOnOwnIdentity'
    BY <1>10, AccountsAssumption
    DEF IInv, TypeOK, RunsOnOwnIdentity, StartInv, OwnIdentity, Starting, BootRetries, Has,
        Dialled, Reconcile, ScheduleServiceRetry, service, disk, signIn
  <2> QED
    BY <2>1, <2>2, <2>3, <2>4, <2>5, <2>6, <2>7, <2>8, <2>9 DEF IInv
<1>11. CASE HelloAnswers
  <2>1. TypeOK'
    BY <1>11 DEF IInv, TypeOK, Someone, Kinds, HelloAnswers, Adoptable, service, disk, signIn
  <2>2. SlotHasWorker'
    BY <1>11, AccountsAssumption
    DEF IInv, TypeOK, SlotHasWorker, HelloAnswers, Adoptable, service, disk,
        signIn
  <2>3. TailInv'
    BY <1>11, AccountsAssumption
    DEF IInv, TypeOK, TailInv, Empty, HelloAnswers, Adoptable, service, disk,
        signIn
  <2>4. StartInv'
    BY <1>11, AccountsAssumption
    DEF IInv, TypeOK, StartInv, OwnIdentity, Starting, IdentityInv, HelloAnswers, Adoptable,
        service, disk, signIn
  <2>5. RegInv' /\ CredentialsInv' /\ EmptyInv' /\ IdentityInv' /\ RunsOnOwnIdentity'
    BY <1>11
    DEF IInv, RegInv, CredentialsInv, EmptyInv, IdentityInv, OwnIdentity, RunsOnOwnIdentity,
        Empty, HelloAnswers, service, disk, signIn
  <2> QED
    BY <2>1, <2>2, <2>3, <2>4, <2>5 DEF IInv
<1>12. CASE HelloFails
  <2>1. TypeOK'
    BY <1>12, FaultsAssumption
    DEF IInv, TypeOK, Someone, Kinds, HelloFails, Fault, NoFault, Reconcile,
        ScheduleServiceRetry, service, disk, signIn
  <2>2. SlotHasWorker'
    BY <1>12, AccountsAssumption
    DEF IInv, TypeOK, SlotHasWorker, HelloFails, Fault, NoFault, Reconcile,
        ScheduleServiceRetry, service, disk, signIn
  <2>3. RegInv'
    BY <1>12, AccountsAssumption
    DEF IInv, TypeOK, RegInv, HelloFails, Fault, NoFault, Reconcile, ScheduleServiceRetry,
        service, disk, signIn
  <2>4. CredentialsInv'
    BY <1>12, AccountsAssumption
    DEF IInv, TypeOK, CredentialsInv, RegInv, HelloFails, Fault, NoFault, Reconcile,
        ScheduleServiceRetry, service, disk, signIn
  <2>5. TailInv'
    BY <1>12, AccountsAssumption
    DEF IInv, TypeOK, TailInv, Empty, HelloFails, Fault, NoFault, Reconcile,
        ScheduleServiceRetry, service, disk, signIn
  <2>6. EmptyInv'
    BY <1>12, AccountsAssumption
    DEF IInv, TypeOK, EmptyInv, Empty, RegInv, TailInv, StartInv, OwnIdentity, Starting,
        HelloFails, Fault, NoFault, Reconcile, ScheduleServiceRetry, service, disk, signIn
  <2>7. IdentityInv'
    BY <1>12, AccountsAssumption
    DEF IInv, TypeOK, IdentityInv, OwnIdentity, TailInv, EmptyInv, RegInv, StartInv, Starting,
        Empty, HelloFails, Fault, NoFault, Reconcile, ScheduleServiceRetry, service, disk,
        signIn
  <2>8. StartInv'
    BY <1>12, AccountsAssumption
    DEF IInv, TypeOK, StartInv, OwnIdentity, Starting, IdentityInv, HelloFails, Fault, NoFault,
        Reconcile, ScheduleServiceRetry, service, disk, signIn
  <2>9. RunsOnOwnIdentity'
    BY <1>12, AccountsAssumption
    DEF IInv, TypeOK, RunsOnOwnIdentity, StartInv, OwnIdentity, Starting, HelloFails, Fault,
        NoFault, Reconcile, ScheduleServiceRetry, service, disk, signIn
  <2> QED
    BY <2>1, <2>2, <2>3, <2>4, <2>5, <2>6, <2>7, <2>8, <2>9 DEF IInv
<1>13. CASE SessionAdopts
  <2>1. TypeOK'
    BY <1>13 DEF IInv, TypeOK, Someone, Kinds, SessionAdopts, Reconcile, service, disk, signIn
  <2>2. SlotHasWorker'
    BY <1>13, AccountsAssumption
    DEF IInv, TypeOK, SlotHasWorker, SessionAdopts, Reconcile, service, disk,
        signIn
  <2>3. RegInv'
    BY <1>13, AccountsAssumption
    DEF IInv, TypeOK, RegInv, SessionAdopts, Reconcile, service, disk, signIn
  <2>4. CredentialsInv'
    BY <1>13, AccountsAssumption
    DEF IInv, TypeOK, CredentialsInv, RegInv, SessionAdopts, Reconcile, service, disk,
        signIn
  <2>5. TailInv'
    BY <1>13, AccountsAssumption
    DEF IInv, TypeOK, TailInv, Empty, SessionAdopts, Reconcile, service, disk,
        signIn
  <2>6. EmptyInv'
    BY <1>13, AccountsAssumption
    DEF IInv, TypeOK, EmptyInv, Empty, RegInv, TailInv, StartInv, OwnIdentity, Starting,
        SessionAdopts, Reconcile, service, disk, signIn
  <2>7. IdentityInv'
    BY <1>13, AccountsAssumption
    DEF IInv, TypeOK, IdentityInv, OwnIdentity, TailInv, EmptyInv, RegInv, StartInv, Starting,
        Empty, SessionAdopts, Reconcile, service, disk, signIn
  <2>8. StartInv'
    BY <1>13, AccountsAssumption
    DEF IInv, TypeOK, StartInv, OwnIdentity, Starting, IdentityInv, SessionAdopts,
        Reconcile, service, disk, signIn
  <2>9. RunsOnOwnIdentity'
    BY <1>13 DEF IInv, RunsOnOwnIdentity, SessionAdopts, service, disk, signIn
  <2> QED
    BY <2>1, <2>2, <2>3, <2>4, <2>5, <2>6, <2>7, <2>8, <2>9 DEF IInv
<1>14. CASE SessionDeclines
  <2>1. TypeOK'
    BY <1>14 DEF IInv, TypeOK, Someone, Kinds, SessionDeclines, Reconcile, service, disk, signIn
  <2>2. SlotHasWorker'
    BY <1>14, AccountsAssumption
    DEF IInv, TypeOK, SlotHasWorker, SessionDeclines, Reconcile, service, disk,
        signIn
  <2>3. RegInv'
    BY <1>14, AccountsAssumption
    DEF IInv, TypeOK, RegInv, SessionDeclines, Reconcile, service, disk, signIn
  <2>4. CredentialsInv'
    BY <1>14, AccountsAssumption
    DEF IInv, TypeOK, CredentialsInv, RegInv, SessionDeclines, Reconcile, service, disk,
        signIn
  <2>5. TailInv'
    BY <1>14, AccountsAssumption
    DEF IInv, TypeOK, TailInv, Empty, SessionDeclines, Reconcile, service, disk,
        signIn
  <2>6. EmptyInv'
    BY <1>14, AccountsAssumption
    DEF IInv, TypeOK, EmptyInv, Empty, RegInv, TailInv, StartInv, OwnIdentity, Starting,
        SessionDeclines, Reconcile, service, disk, signIn
  <2>7. IdentityInv'
    BY <1>14, AccountsAssumption
    DEF IInv, TypeOK, IdentityInv, OwnIdentity, TailInv, EmptyInv, RegInv, StartInv, Starting,
        Empty, SessionDeclines, Reconcile, service, disk, signIn
  <2>8. StartInv'
    BY <1>14, AccountsAssumption
    DEF IInv, TypeOK, StartInv, OwnIdentity, Starting, IdentityInv, SessionDeclines,
        Reconcile, service, disk, signIn
  <2>9. RunsOnOwnIdentity'
    BY <1>14 DEF IInv, RunsOnOwnIdentity, SessionDeclines, service, disk, signIn
  <2> QED
    BY <2>1, <2>2, <2>3, <2>4, <2>5, <2>6, <2>7, <2>8, <2>9 DEF IInv
<1>15. CASE SessionStarts
  <2>1. TypeOK'
    <3>1. ({tunnel, provider, identity, jwt, regFor} \subseteq Someone)'
      BY <1>15, FaultsAssumption
      DEF IInv, TypeOK, SessionStarts, NoFault, StartTunnel, RunsOn, Fault, service,
          Reconcile, signIn, Someone
    <3>2. (/\ files \subseteq {"marker", "saved"}
           /\ flags \subseteq {"loggedIn", "owed", "device", "userDisconnected", "recoveryNeeded"})'
      BY <1>15, FaultsAssumption
      DEF IInv, TypeOK, SessionStarts, NoFault, StartTunnel, RunsOn, Fault, service,
          Reconcile, signIn
    <3>3. (/\ faults \in 0 .. MaxFaults
           /\ history \subseteq {"lost", "kept", "identityKept", "missed"})'
      BY <1>15, FaultsAssumption
      DEF IInv, TypeOK, SessionStarts, NoFault, StartTunnel, RunsOn, Fault, service,
          Reconcile, signIn
    <3>4. (/\ up \in {"up", "down"}
           /\ link \in {"none", "live", "dead"} /\ slot \in Kinds \cup {"none"}
           /\ req \in Kinds \cup {"none"})'
      BY <1>15, FaultsAssumption
      DEF IInv, TypeOK, SessionStarts, NoFault, StartTunnel, RunsOn, Fault, service,
          Reconcile, signIn, Kinds
    <3> QED
      BY <1>15, <3>1, <3>2, <3>3, <3>4
      DEF IInv, TypeOK, SessionStarts, NoFault, StartTunnel, RunsOn, Fault, service,
          Reconcile, signIn
  <2>2. SlotHasWorker'
    BY <1>15, AccountsAssumption
    DEF IInv, TypeOK, SlotHasWorker, SessionStarts, NoFault, StartTunnel, RunsOn,
        Fault, service, Reconcile, signIn
  <2>3. RegInv'
    BY <1>15, AccountsAssumption
    DEF IInv, TypeOK, RegInv, SessionStarts, NoFault, StartTunnel, RunsOn, Fault, service,
        Reconcile, signIn
  <2>4. CredentialsInv'
    BY <1>15, AccountsAssumption
    DEF IInv, TypeOK, CredentialsInv, RegInv, SessionStarts, NoFault, StartTunnel, RunsOn,
        Fault, service, Reconcile, signIn
  <2>5. TailInv'
    BY <1>15, AccountsAssumption
    DEF IInv, TypeOK, TailInv, Empty, SessionStarts, NoFault, StartTunnel,
        RunsOn, Fault, service, Reconcile, signIn
  <2>6. EmptyInv'
    BY <1>15, AccountsAssumption
    DEF IInv, TypeOK, EmptyInv, Empty, RegInv, TailInv, StartInv, OwnIdentity, Starting,
        SessionStarts, NoFault, StartTunnel, RunsOn, Fault, service, Reconcile, signIn
  <2>7. IdentityInv'
    BY <1>15, AccountsAssumption
    DEF IInv, TypeOK, IdentityInv, OwnIdentity, TailInv, EmptyInv, RegInv, StartInv, Starting,
        Empty, SessionStarts, NoFault, StartTunnel, RunsOn, Fault, service, Reconcile,
        signIn
  <2>8. StartInv'
    BY <1>15, AccountsAssumption
    DEF IInv, TypeOK, StartInv, OwnIdentity, Starting, IdentityInv, SessionStarts, NoFault,
        StartTunnel, RunsOn, Fault, service, Reconcile, signIn
  <2>9. RunsOnOwnIdentity'
    BY <1>15, AccountsAssumption
    DEF IInv, TypeOK, RunsOnOwnIdentity, StartInv, OwnIdentity, Starting, SessionStarts,
        NoFault, StartTunnel, RunsOn, Fault, service, Reconcile, signIn
  <2> QED
    BY <2>1, <2>2, <2>3, <2>4, <2>5, <2>6, <2>7, <2>8, <2>9 DEF IInv
<1>16. CASE ReconcileEnds
  <2>1. TypeOK'
    BY <1>16
    DEF IInv, TypeOK, Someone, Kinds, ReconcileEnds, Has, Provides, Unlock, service, disk,
        signIn
  <2>2. SlotHasWorker'
    BY <1>16, AccountsAssumption
    DEF IInv, TypeOK, SlotHasWorker, ReconcileEnds, Has, Provides, Unlock,
        service, disk, signIn
  <2>3. TailInv'
    BY <1>16, AccountsAssumption
    DEF IInv, TypeOK, TailInv, Empty, ReconcileEnds, Has, Provides, Unlock,
        service, disk, signIn
  <2>4. StartInv'
    BY <1>16, AccountsAssumption
    DEF IInv, TypeOK, StartInv, OwnIdentity, Starting, IdentityInv, ReconcileEnds, Has,
        Provides, Unlock, service, disk, signIn
  <2>5. RegInv' /\ CredentialsInv' /\ EmptyInv' /\ IdentityInv' /\ RunsOnOwnIdentity'
    BY <1>16
    DEF IInv, RegInv, CredentialsInv, EmptyInv, IdentityInv, OwnIdentity, RunsOnOwnIdentity,
        Empty, ReconcileEnds, service, disk, signIn
  <2> QED
    BY <2>1, <2>2, <2>3, <2>4, <2>5 DEF IInv
<1>17. CASE ReconcileStops
  <2>1. TypeOK'
    BY <1>17
    DEF IInv, TypeOK, Someone, Kinds, ReconcileStops, Has, Provides, Unlock, disk, signIn
  <2>2. SlotHasWorker'
    BY <1>17, AccountsAssumption
    DEF IInv, TypeOK, SlotHasWorker, ReconcileStops, Has, Provides, Unlock, disk,
        signIn
  <2>3. TailInv'
    BY <1>17, AccountsAssumption
    DEF IInv, TypeOK, TailInv, Empty, ReconcileStops, Has, Provides, Unlock,
        disk, signIn
  <2>4. EmptyInv'
    BY <1>17, AccountsAssumption
    DEF IInv, TypeOK, EmptyInv, Empty, RegInv, TailInv, StartInv, OwnIdentity, Starting,
        ReconcileStops, Has, Provides, Unlock, disk, signIn
  <2>5. StartInv'
    BY <1>17, AccountsAssumption
    DEF IInv, TypeOK, StartInv, OwnIdentity, Starting, IdentityInv, ReconcileStops, Has,
        Provides, Unlock, disk, signIn
  <2>6. RunsOnOwnIdentity'
    BY <1>17, AccountsAssumption
    DEF IInv, TypeOK, RunsOnOwnIdentity, StartInv, OwnIdentity, Starting, ReconcileStops,
        Has, Provides, Unlock, disk, signIn
  <2>7. RegInv' /\ CredentialsInv' /\ IdentityInv'
    BY <1>17
    DEF IInv, RegInv, CredentialsInv, IdentityInv, OwnIdentity, ReconcileStops, disk, signIn
  <2> QED
    BY <2>1, <2>2, <2>3, <2>4, <2>5, <2>6, <2>7 DEF IInv
<1>18. CASE ReconcileBegins
  <2>1. TypeOK'
    BY <1>18
    DEF IInv, TypeOK, Someone, Kinds, ReconcileBegins, Has, Provides, service, disk, signIn
  <2>2. SlotHasWorker'
    BY <1>18, AccountsAssumption
    DEF IInv, TypeOK, SlotHasWorker, ReconcileBegins, Has, Provides, service,
        disk, signIn
  <2>3. TailInv'
    BY <1>18, AccountsAssumption
    DEF IInv, TypeOK, TailInv, Empty, ReconcileBegins, Has, Provides, service,
        disk, signIn
  <2>4. StartInv'
    BY <1>18, AccountsAssumption
    DEF IInv, TypeOK, StartInv, OwnIdentity, Starting, IdentityInv, ReconcileBegins, Has,
        Provides, service, disk, signIn
  <2>5. RegInv' /\ CredentialsInv' /\ EmptyInv' /\ IdentityInv' /\ RunsOnOwnIdentity'
    BY <1>18
    DEF IInv, RegInv, CredentialsInv, EmptyInv, IdentityInv, OwnIdentity, RunsOnOwnIdentity,
        Empty, ReconcileBegins, service, disk, signIn
  <2> QED
    BY <2>1, <2>2, <2>3, <2>4, <2>5 DEF IInv
<1>19. CASE ReconcileProvides
  <2>1. TypeOK'
    BY <1>19, FaultsAssumption
    DEF IInv, TypeOK, Someone, Kinds, ReconcileProvides, NoFault, StartProvider, RunsOn,
        Fault, service, Unlock, disk, signIn
  <2>2. SlotHasWorker'
    BY <1>19, AccountsAssumption
    DEF IInv, TypeOK, SlotHasWorker, ReconcileProvides, NoFault, StartProvider,
        RunsOn, Fault, service, Unlock, disk, signIn
  <2>3. TailInv'
    BY <1>19, AccountsAssumption
    DEF IInv, TypeOK, TailInv, Empty, ReconcileProvides, NoFault, StartProvider,
        RunsOn, Fault, service, Unlock, disk, signIn
  <2>4. EmptyInv'
    BY <1>19, AccountsAssumption
    DEF IInv, TypeOK, EmptyInv, Empty, RegInv, TailInv, StartInv, OwnIdentity, Starting,
        ReconcileProvides, NoFault, StartProvider, RunsOn, Fault, service, Unlock, disk,
        signIn
  <2>5. IdentityInv'
    BY <1>19, AccountsAssumption
    DEF IInv, TypeOK, IdentityInv, OwnIdentity, TailInv, EmptyInv, RegInv, StartInv, Starting,
        Empty, ReconcileProvides, NoFault, StartProvider, RunsOn, Fault, service, Unlock,
        disk, signIn
  <2>6. StartInv'
    BY <1>19, AccountsAssumption
    DEF IInv, TypeOK, StartInv, OwnIdentity, Starting, IdentityInv, ReconcileProvides, NoFault,
        StartProvider, RunsOn, Fault, service, Unlock, disk, signIn
  <2>7. RunsOnOwnIdentity'
    BY <1>19, AccountsAssumption
    DEF IInv, TypeOK, RunsOnOwnIdentity, StartInv, OwnIdentity, Starting, ReconcileProvides,
        NoFault, StartProvider, RunsOn, Fault, service, Unlock, disk, signIn
  <2>8. RegInv' /\ CredentialsInv'
    BY <1>19 DEF IInv, RegInv, CredentialsInv, ReconcileProvides, service, disk, signIn
  <2> QED
    BY <2>1, <2>2, <2>3, <2>4, <2>5, <2>6, <2>7, <2>8 DEF IInv
<1> QED
  BY <1>1, <1>2, <1>3, <1>4, <1>5, <1>6, <1>7, <1>8, <1>9, <1>10, <1>11, <1>12, <1>13,
     <1>14, <1>15, <1>16, <1>17, <1>18, <1>19
  DEF Worker

\* A step of a sign-out keeps the invariant.
LEMMA TailKeeps == ASSUME IInv, Logout \/ TailLocks \/ Tail PROVE IInv'
<1>1. CASE Logout
  <2>1. TypeOK'
    BY <1>1 DEF IInv, TypeOK, Someone, Kinds, Logout, service, disk, pass
  <2>2. SlotHasWorker'
    BY <1>1, AccountsAssumption
    DEF IInv, TypeOK, SlotHasWorker, Logout, service, disk, pass
  <2>3. RegInv'
    BY <1>1, AccountsAssumption DEF IInv, TypeOK, RegInv, Logout, service, disk, pass
  <2>4. CredentialsInv'
    BY <1>1, AccountsAssumption
    DEF IInv, TypeOK, CredentialsInv, RegInv, Logout, service, disk, pass
  <2>5. TailInv'
    BY <1>1, AccountsAssumption
    DEF IInv, TypeOK, TailInv, Empty, Logout, service, disk, pass
  <2>6. EmptyInv'
    BY <1>1, AccountsAssumption
    DEF IInv, TypeOK, EmptyInv, Empty, RegInv, TailInv, StartInv, OwnIdentity, Starting,
        Logout, service, disk, pass
  <2>7. IdentityInv'
    BY <1>1, AccountsAssumption
    DEF IInv, TypeOK, IdentityInv, OwnIdentity, TailInv, EmptyInv, RegInv, StartInv, Starting,
        Empty, Logout, service, disk, pass
  <2>8. StartInv'
    BY <1>1, AccountsAssumption
    DEF IInv, TypeOK, StartInv, OwnIdentity, Starting, IdentityInv, Logout, service, disk, pass
  <2>9. RunsOnOwnIdentity'
    BY <1>1 DEF IInv, RunsOnOwnIdentity, Logout, service, disk, pass
  <2> QED
    BY <2>1, <2>2, <2>3, <2>4, <2>5, <2>6, <2>7, <2>8, <2>9 DEF IInv
<1>2. CASE TailLocks
  <2>1. TypeOK'
    BY <1>2 DEF IInv, TypeOK, Someone, Kinds, TailLocks, service, disk, pass, signIn
  <2>2. RegInv'
    BY <1>2, AccountsAssumption DEF IInv, TypeOK, RegInv, TailLocks, service, disk, pass, signIn
  <2>3. CredentialsInv'
    BY <1>2, AccountsAssumption
    DEF IInv, TypeOK, CredentialsInv, RegInv, TailLocks, service, disk, pass, signIn
  <2>4. TailInv'
    BY <1>2, AccountsAssumption
    DEF IInv, TypeOK, TailInv, Empty, TailLocks, service, disk, pass, signIn
  <2>5. EmptyInv'
    BY <1>2, AccountsAssumption
    DEF IInv, TypeOK, EmptyInv, Empty, RegInv, TailInv, StartInv, OwnIdentity, Starting,
        TailLocks, service, disk, pass, signIn
  <2>6. IdentityInv'
    BY <1>2, AccountsAssumption
    DEF IInv, TypeOK, IdentityInv, OwnIdentity, TailInv, EmptyInv, RegInv, StartInv, Starting,
        Empty, TailLocks, service, disk, pass, signIn
  <2>7. StartInv'
    BY <1>2, AccountsAssumption
    DEF IInv, TypeOK, StartInv, OwnIdentity, Starting, IdentityInv, TailLocks, service,
        disk, pass, signIn
  <2>8. SlotHasWorker' /\ RunsOnOwnIdentity'
    BY <1>2
    DEF IInv, RunsOnOwnIdentity, SlotHasWorker, TailLocks, service, disk, pass,
        signIn
  <2> QED
    BY <2>1, <2>2, <2>3, <2>4, <2>5, <2>6, <2>7, <2>8 DEF IInv
<1>3. CASE TailForgets
  <2>1. TypeOK'
    BY <1>3 DEF IInv, TypeOK, Someone, Kinds, TailForgets, service, pass, signIn
  <2>2. RegInv'
    BY <1>3, AccountsAssumption DEF IInv, TypeOK, RegInv, TailForgets, service, pass, signIn
  <2>3. CredentialsInv'
    BY <1>3, AccountsAssumption
    DEF IInv, TypeOK, CredentialsInv, RegInv, TailForgets, service, pass, signIn
  <2>4. TailInv'
    BY <1>3, AccountsAssumption
    DEF IInv, TypeOK, TailInv, Empty, TailForgets, service, pass, signIn
  <2>5. EmptyInv'
    BY <1>3, AccountsAssumption
    DEF IInv, TypeOK, EmptyInv, Empty, RegInv, TailInv, StartInv, OwnIdentity, Starting,
        TailForgets, service, pass, signIn
  <2>6. IdentityInv'
    BY <1>3, AccountsAssumption
    DEF IInv, TypeOK, IdentityInv, OwnIdentity, TailInv, EmptyInv, RegInv, StartInv, Starting,
        Empty, TailForgets, service, pass, signIn
  <2>7. StartInv'
    BY <1>3, AccountsAssumption
    DEF IInv, TypeOK, StartInv, OwnIdentity, Starting, IdentityInv, TailForgets, service,
        pass, signIn
  <2>8. RunsOnOwnIdentity'
    BY <1>3, AccountsAssumption
    DEF IInv, TypeOK, RunsOnOwnIdentity, StartInv, OwnIdentity, Starting, TailForgets,
        service, pass, signIn
  <2>9. SlotHasWorker'
    BY <1>3 DEF IInv, SlotHasWorker, TailForgets, service, pass, signIn
  <2> QED
    BY <2>1, <2>2, <2>3, <2>4, <2>5, <2>6, <2>7, <2>8, <2>9 DEF IInv
<1>4. CASE TailThrows
  <2>1. TypeOK'
    BY <1>4, FaultsAssumption
    DEF IInv, TypeOK, Someone, Kinds, TailThrows, Fault, service, disk, pass, signIn
  <2>2. RegInv'
    BY <1>4, AccountsAssumption
    DEF IInv, TypeOK, RegInv, TailThrows, Fault, service, disk, pass, signIn
  <2>3. CredentialsInv'
    BY <1>4, AccountsAssumption
    DEF IInv, TypeOK, CredentialsInv, RegInv, TailThrows, Fault, service, disk, pass, signIn
  <2>4. TailInv'
    BY <1>4, AccountsAssumption
    DEF IInv, TypeOK, TailInv, Empty, TailThrows, Fault, service, disk, pass,
        signIn
  <2>5. EmptyInv'
    BY <1>4, AccountsAssumption
    DEF IInv, TypeOK, EmptyInv, Empty, RegInv, TailInv, StartInv, OwnIdentity, Starting,
        TailThrows, Fault, service, disk, pass, signIn
  <2>6. IdentityInv'
    BY <1>4, AccountsAssumption
    DEF IInv, TypeOK, IdentityInv, OwnIdentity, TailInv, EmptyInv, RegInv, StartInv, Starting,
        Empty, TailThrows, Fault, service, disk, pass, signIn
  <2>7. StartInv'
    BY <1>4, AccountsAssumption
    DEF IInv, TypeOK, StartInv, OwnIdentity, Starting, IdentityInv, TailThrows, Fault,
        service, disk, pass, signIn
  <2>8. RunsOnOwnIdentity'
    BY <1>4, AccountsAssumption
    DEF IInv, TypeOK, RunsOnOwnIdentity, StartInv, OwnIdentity, Starting, TailThrows, Fault,
        service, disk, pass, signIn
  <2>9. SlotHasWorker'
    BY <1>4 DEF IInv, SlotHasWorker, TailThrows, service, disk, pass, signIn
  <2> QED
    BY <2>1, <2>2, <2>3, <2>4, <2>5, <2>6, <2>7, <2>8, <2>9 DEF IInv
<1>5. CASE TailOwes
  <2>1. TypeOK'
    <3>1. files' \subseteq {"marker", "saved"} /\ faults' \in 0 .. MaxFaults
      <4>1. files \cup {"marker"} \in SUBSET {"marker", "saved"} /\ Mark(files \cup {"marker"})
        BY <1>5 DEF IInv, TypeOK, TailOwes, Owe
      <4> QED
        BY <4>1, MarkKeeps DEF IInv
    <3> QED
      BY <1>5, <3>1 DEF IInv, TypeOK, TailOwes, Owe, service, pass, signIn
  <2>2. SlotHasWorker'
    BY <1>5, AccountsAssumption
    DEF IInv, TypeOK, SlotHasWorker, TailOwes, Owe, Mark, Fault, NoFault, service, pass, signIn
  <2>3. RegInv'
    BY <1>5, AccountsAssumption
    DEF IInv, TypeOK, RegInv, TailOwes, Owe, Mark, Fault, NoFault, service, pass, signIn
  <2>4. CredentialsInv'
    BY <1>5, AccountsAssumption
    DEF IInv, TypeOK, CredentialsInv, RegInv, TailOwes, Owe, Mark, Fault, NoFault, service,
        pass, signIn
  <2>5. TailInv'
    BY <1>5, AccountsAssumption
    DEF IInv, TypeOK, TailInv, Empty, TailOwes, Owe, Mark, Fault, NoFault, service, pass, signIn
  <2>6. EmptyInv'
    BY <1>5, AccountsAssumption
    DEF IInv, TypeOK, EmptyInv, Empty, RegInv, TailInv, StartInv, OwnIdentity, Starting,
        TailOwes, Owe, Mark, Fault, NoFault, service, pass, signIn
  <2>7. IdentityInv'
    BY <1>5, AccountsAssumption
    DEF IInv, TypeOK, IdentityInv, OwnIdentity, TailInv, EmptyInv, RegInv, StartInv, Starting,
        Empty, TailOwes, Owe, Mark, Fault, NoFault, service, pass, signIn
  <2>8. StartInv'
    BY <1>5, AccountsAssumption
    DEF IInv, TypeOK, StartInv, OwnIdentity, Starting, IdentityInv, TailOwes, Owe, Mark,
        Fault, NoFault, service, pass, signIn
  <2>9. RunsOnOwnIdentity'
    BY <1>5 DEF IInv, RunsOnOwnIdentity, TailOwes, service, pass, signIn
  <2> QED
    BY <2>1, <2>2, <2>3, <2>4, <2>5, <2>6, <2>7, <2>8, <2>9 DEF IInv
<1>6. CASE TailDelivers
  <2>1. TypeOK'
    <3>1. ({tunnel, provider, identity, jwt, regFor} \subseteq Someone)'
      BY <1>6, FaultsAssumption
      DEF IInv, TypeOK, TailDelivers, DeliverSucceeds, NoFault, Dialled, Do, Requests,
          DeliverFails, ScheduleServiceRetry, service, Fault, disk, pass, signIn, Someone
    <3>2. (/\ files \subseteq {"marker", "saved"}
           /\ flags \subseteq {"loggedIn", "owed", "device", "userDisconnected", "recoveryNeeded"})'
      BY <1>6, FaultsAssumption
      DEF IInv, TypeOK, TailDelivers, DeliverSucceeds, NoFault, Dialled, Do, Requests,
          DeliverFails, ScheduleServiceRetry, service, Fault, disk, pass, signIn
    <3>3. (/\ faults \in 0 .. MaxFaults
           /\ history \subseteq {"lost", "kept", "identityKept", "missed"})'
      <4>1. (faults \in 0 .. MaxFaults)'
        BY <1>6, FaultsAssumption
        DEF IInv, TypeOK, TailDelivers, DeliverSucceeds, NoFault, DeliverFails,
            ScheduleServiceRetry, Fault
      <4>2. (history \subseteq {"lost", "kept", "identityKept", "missed"})'
        BY <1>6
        DEF IInv, TypeOK, TailDelivers, DeliverSucceeds, NoFault, DeliverFails,
            ScheduleServiceRetry, Fault
      <4> QED
        BY <4>1, <4>2
    <3>4. (/\ up \in {"up", "down"}
           /\ link \in {"none", "live", "dead"} /\ slot \in Kinds \cup {"none"}
           /\ req \in Kinds \cup {"none"})'
      BY <1>6, FaultsAssumption
      DEF IInv, TypeOK, TailDelivers, DeliverSucceeds, NoFault, Dialled, Do, Requests,
          DeliverFails, ScheduleServiceRetry, service, Fault, disk, pass, signIn, Kinds
    <3> QED
      BY <1>6, <3>1, <3>2, <3>3, <3>4
      DEF IInv, TypeOK, TailDelivers, DeliverSucceeds, NoFault, Dialled, Do, Requests,
          DeliverFails, ScheduleServiceRetry, service, Fault, disk, pass, signIn
  <2>2. SlotHasWorker'
    BY <1>6, AccountsAssumption
    DEF IInv, TypeOK, SlotHasWorker, TailDelivers, DeliverSucceeds, NoFault, Dialled, Do,
        Requests, DeliverFails, ScheduleServiceRetry, service, Fault, disk, pass, signIn
  <2>3. RegInv'
    BY <1>6, AccountsAssumption
    DEF IInv, TypeOK, RegInv, TailDelivers, DeliverSucceeds, NoFault, Dialled, Do, Requests,
        DeliverFails, ScheduleServiceRetry, service, Fault, disk, pass, signIn
  <2>4. CredentialsInv'
    BY <1>6, AccountsAssumption
    DEF IInv, TypeOK, CredentialsInv, RegInv, TailDelivers, DeliverSucceeds, NoFault,
        Dialled, Do, Requests, DeliverFails, ScheduleServiceRetry, service, Fault, disk,
        pass, signIn
  <2>5. TailInv'
    BY <1>6, AccountsAssumption
    DEF IInv, TypeOK, TailInv, Empty, TailDelivers, DeliverSucceeds, NoFault, Dialled, Do,
        Requests, DeliverFails, ScheduleServiceRetry, service, Fault, disk, pass, signIn
  <2>6. EmptyInv'
    BY <1>6, AccountsAssumption
    DEF IInv, TypeOK, EmptyInv, Empty, RegInv, TailInv, StartInv, OwnIdentity, Starting,
        TailDelivers, DeliverSucceeds, NoFault, Dialled, Do, Requests, DeliverFails,
        ScheduleServiceRetry, service, Fault, disk, pass, signIn
  <2>7. IdentityInv'
    BY <1>6, AccountsAssumption
    DEF IInv, TypeOK, IdentityInv, OwnIdentity, TailInv, EmptyInv, RegInv, StartInv, Starting,
        Empty, TailDelivers, DeliverSucceeds, NoFault, Dialled, Do, Requests, DeliverFails,
        ScheduleServiceRetry, service, Fault, disk, pass, signIn
  <2>8. StartInv'
    BY <1>6, AccountsAssumption
    DEF IInv, TypeOK, StartInv, OwnIdentity, Starting, IdentityInv, TailDelivers,
        DeliverSucceeds, NoFault, Dialled, Do, Requests, DeliverFails, ScheduleServiceRetry,
        service, Fault, disk, pass, signIn
  <2>9. RunsOnOwnIdentity'
    BY <1>6, AccountsAssumption
    DEF IInv, TypeOK, RunsOnOwnIdentity, StartInv, OwnIdentity, Starting, TailDelivers,
        DeliverSucceeds, NoFault, Dialled, Do, Requests, DeliverFails, ScheduleServiceRetry,
        service, Fault, disk, pass, signIn
  <2> QED
    BY <2>1, <2>2, <2>3, <2>4, <2>5, <2>6, <2>7, <2>8, <2>9 DEF IInv
<1>7. CASE TailSettles
  <2>1. TypeOK'
    <3>1. files' \subseteq {"marker", "saved"} /\ faults' \in 0 .. MaxFaults
      <4>1. files \ {"marker"} \in SUBSET {"marker", "saved"} /\ Mark(files \ {"marker"})
        BY <1>7 DEF IInv, TypeOK, TailSettles, Settled
      <4> QED
        BY <4>1, MarkKeeps DEF IInv
    <3> QED
      BY <1>7, <3>1 DEF IInv, TypeOK, TailSettles, Settled, service, pass, signIn
  <2>2. SlotHasWorker'
    BY <1>7, AccountsAssumption
    DEF IInv, TypeOK, SlotHasWorker, TailSettles, Settled, Mark, Fault, NoFault, service,
        pass, signIn
  <2>3. RegInv'
    BY <1>7, AccountsAssumption
    DEF IInv, TypeOK, RegInv, TailSettles, Settled, Mark, Fault, NoFault, service, pass, signIn
  <2>4. CredentialsInv'
    BY <1>7, AccountsAssumption
    DEF IInv, TypeOK, CredentialsInv, RegInv, TailSettles, Settled, Mark, Fault, NoFault,
        service, pass, signIn
  <2>5. TailInv'
    BY <1>7, AccountsAssumption
    DEF IInv, TypeOK, TailInv, Empty, TailSettles, Settled, Mark, Fault, NoFault, service,
        pass, signIn
  <2>6. EmptyInv'
    BY <1>7, AccountsAssumption
    DEF IInv, TypeOK, EmptyInv, Empty, RegInv, TailInv, StartInv, OwnIdentity, Starting,
        TailSettles, Settled, Mark, Fault, NoFault, service, pass, signIn
  <2>7. IdentityInv'
    BY <1>7, AccountsAssumption
    DEF IInv, TypeOK, IdentityInv, OwnIdentity, TailInv, EmptyInv, RegInv, StartInv, Starting,
        Empty, TailSettles, Settled, Mark, Fault, NoFault, service, pass, signIn
  <2>8. StartInv'
    BY <1>7, AccountsAssumption
    DEF IInv, TypeOK, StartInv, OwnIdentity, Starting, IdentityInv, TailSettles, Settled,
        Mark, Fault, NoFault, service, pass, signIn
  <2>9. RunsOnOwnIdentity'
    BY <1>7 DEF IInv, RunsOnOwnIdentity, TailSettles, service, pass, signIn
  <2> QED
    BY <2>1, <2>2, <2>3, <2>4, <2>5, <2>6, <2>7, <2>8, <2>9 DEF IInv
<1>8. CASE TailTearsDown
  <2>1. TypeOK'
    BY <1>8 DEF IInv, TypeOK, Someone, Kinds, TailTearsDown, Drop, service, pass, signIn
  <2>2. SlotHasWorker'
    BY <1>8, AccountsAssumption
    DEF IInv, TypeOK, SlotHasWorker, TailTearsDown, Drop, service, pass, signIn
  <2>3. RegInv'
    BY <1>8, AccountsAssumption
    DEF IInv, TypeOK, RegInv, TailTearsDown, Drop, service, pass, signIn
  <2>4. CredentialsInv'
    BY <1>8, AccountsAssumption
    DEF IInv, TypeOK, CredentialsInv, RegInv, TailTearsDown, Drop, service, pass, signIn
  <2>5. TailInv'
    BY <1>8, AccountsAssumption
    DEF IInv, TypeOK, TailInv, Empty, TailTearsDown, Drop, service, pass, signIn
  <2>6. EmptyInv'
    BY <1>8, AccountsAssumption
    DEF IInv, TypeOK, EmptyInv, Empty, RegInv, TailInv, StartInv, OwnIdentity, Starting,
        TailTearsDown, Drop, service, pass, signIn
  <2>7. IdentityInv'
    BY <1>8, AccountsAssumption
    DEF IInv, TypeOK, IdentityInv, OwnIdentity, TailInv, EmptyInv, RegInv, StartInv, Starting,
        Empty, TailTearsDown, Drop, service, pass, signIn
  <2>8. StartInv'
    BY <1>8, AccountsAssumption
    DEF IInv, TypeOK, StartInv, OwnIdentity, Starting, IdentityInv, TailTearsDown, Drop,
        service, pass, signIn
  <2>9. RunsOnOwnIdentity'
    BY <1>8 DEF IInv, RunsOnOwnIdentity, TailTearsDown, service, pass, signIn
  <2> QED
    BY <2>1, <2>2, <2>3, <2>4, <2>5, <2>6, <2>7, <2>8, <2>9 DEF IInv
<1>9. CASE TailFinishes
  <2>1. TypeOK'
    BY <1>9 DEF IInv, TypeOK, Someone, Kinds, TailFinishes, service, disk, pass
  <2>2. RegInv'
    BY <1>9, AccountsAssumption DEF IInv, TypeOK, RegInv, TailFinishes, service, disk, pass
  <2>3. CredentialsInv'
    BY <1>9, AccountsAssumption
    DEF IInv, TypeOK, CredentialsInv, RegInv, TailFinishes, service, disk, pass
  <2>4. TailInv'
    BY <1>9, AccountsAssumption
    DEF IInv, TypeOK, TailInv, Empty, TailFinishes, service, disk, pass
  <2>5. EmptyInv'
    BY <1>9, AccountsAssumption
    DEF IInv, TypeOK, EmptyInv, Empty, RegInv, TailInv, StartInv, OwnIdentity, Starting,
        TailFinishes, service, disk, pass
  <2>6. IdentityInv'
    BY <1>9, AccountsAssumption
    DEF IInv, TypeOK, IdentityInv, OwnIdentity, TailInv, EmptyInv, RegInv, StartInv, Starting,
        Empty, TailFinishes, service, disk, pass
  <2>7. StartInv'
    BY <1>9, AccountsAssumption
    DEF IInv, TypeOK, StartInv, OwnIdentity, Starting, IdentityInv, TailFinishes, service,
        disk, pass
  <2>8. SlotHasWorker' /\ RunsOnOwnIdentity'
    BY <1>9
    DEF IInv, RunsOnOwnIdentity, SlotHasWorker, TailFinishes, service, disk, pass
  <2> QED
    BY <2>1, <2>2, <2>3, <2>4, <2>5, <2>6, <2>7, <2>8 DEF IInv
<1> QED
  BY <1>1, <1>2, <1>3, <1>4, <1>5, <1>6, <1>7, <1>8, <1>9 DEF Tail

\* A step of a registration keeps the invariant.
LEMMA SignInKeeps ==
  ASSUME IInv, (\E account \in Accounts : SignIn(account)) \/ Registration PROVE IInv'
<1>1. CASE \E account \in Accounts : SignIn(account)
  <2>1. TypeOK'
    BY <1>1 DEF IInv, TypeOK, Someone, Kinds, SignIn, Has, service, disk, pass
  <2>2. RegInv'
    BY <1>1, AccountsAssumption DEF IInv, TypeOK, RegInv, SignIn, Has, service, disk, pass
  <2>3. CredentialsInv'
    BY <1>1, AccountsAssumption
    DEF IInv, TypeOK, CredentialsInv, RegInv, SignIn, Has, service, disk, pass
  <2>4. SlotHasWorker' /\ TailInv' /\ EmptyInv' /\ IdentityInv' /\ StartInv' /\ RunsOnOwnIdentity'
    BY <1>1
    DEF IInv, TailInv, EmptyInv, IdentityInv, OwnIdentity, StartInv, RunsOnOwnIdentity,
        SlotHasWorker, Empty, Starting, SignIn, service, disk, pass
  <2> QED
    BY <2>1, <2>2, <2>3, <2>4 DEF IInv
<1>2. CASE RegDefers
  <2>1. TypeOK'
    BY <1>2 DEF IInv, TypeOK, Someone, Kinds, RegInv, RegDefers, service, disk, pass
  <2>2. RegInv'
    BY <1>2, AccountsAssumption DEF IInv, TypeOK, RegInv, RegDefers, service, disk, pass
  <2>3. CredentialsInv'
    BY <1>2, AccountsAssumption
    DEF IInv, TypeOK, CredentialsInv, RegInv, RegDefers, service, disk, pass
  <2>4. SlotHasWorker' /\ TailInv' /\ EmptyInv' /\ IdentityInv' /\ StartInv' /\ RunsOnOwnIdentity'
    BY <1>2
    DEF IInv, TailInv, EmptyInv, IdentityInv, OwnIdentity, StartInv, RunsOnOwnIdentity,
        SlotHasWorker, Empty, Starting, RegDefers, service, disk, pass
  <2> QED
    BY <2>1, <2>2, <2>3, <2>4 DEF IInv
<1>3. CASE RegTearsDown
  <2>1. TypeOK'
    <3>1. ({tunnel, provider, identity, jwt, regFor} \subseteq Someone)'
      BY <1>3, FaultsAssumption
      DEF IInv, TypeOK, RegInv, RegTearsDown, RegEnds, Has, Drop, NoFault, StopTunnel,
          Fault, service, pass, Someone
    <3>2. (/\ files \subseteq {"marker", "saved"}
           /\ flags \subseteq {"loggedIn", "owed", "device", "userDisconnected", "recoveryNeeded"})'
      BY <1>3, FaultsAssumption
      DEF IInv, TypeOK, RegInv, RegTearsDown, RegEnds, Has, Drop, NoFault, StopTunnel,
          Fault, service, pass
    <3>3. (/\ faults \in 0 .. MaxFaults
           /\ history \subseteq {"lost", "kept", "identityKept", "missed"})'
      BY <1>3, FaultsAssumption
      DEF IInv, TypeOK, RegInv, RegTearsDown, RegEnds, Has, Drop, NoFault, StopTunnel,
          Fault, service, pass
    <3>4. (/\ up \in {"up", "down"}
           /\ link \in {"none", "live", "dead"} /\ slot \in Kinds \cup {"none"}
           /\ req \in Kinds \cup {"none"})'
      BY <1>3, FaultsAssumption
      DEF IInv, TypeOK, RegInv, RegTearsDown, RegEnds, Has, Drop, NoFault, StopTunnel,
          Fault, service, pass, Kinds
    <3> QED
      BY <1>3, <3>1, <3>2, <3>3, <3>4
      DEF IInv, TypeOK, RegInv, RegTearsDown, RegEnds, Has, Drop, NoFault, StopTunnel,
          Fault, service, pass
  <2>2. SlotHasWorker'
    BY <1>3, AccountsAssumption
    DEF IInv, TypeOK, SlotHasWorker, RegTearsDown, RegEnds, Has, Drop, NoFault,
        StopTunnel, Fault, service, pass
  <2>3. RegInv'
    BY <1>3, AccountsAssumption
    DEF IInv, TypeOK, RegInv, RegTearsDown, RegEnds, Has, Drop, NoFault, StopTunnel, Fault,
        service, pass
  <2>4. CredentialsInv'
    BY <1>3, AccountsAssumption
    DEF IInv, TypeOK, CredentialsInv, RegInv, RegTearsDown, RegEnds, Has, Drop, NoFault,
        StopTunnel, Fault, service, pass
  <2>5. TailInv'
    BY <1>3, AccountsAssumption
    DEF IInv, TypeOK, TailInv, Empty, RegTearsDown, RegEnds, Has, Drop, NoFault,
        StopTunnel, Fault, service, pass
  <2>6. EmptyInv'
    BY <1>3, AccountsAssumption
    DEF IInv, TypeOK, EmptyInv, Empty, RegInv, TailInv, StartInv, OwnIdentity, Starting,
        RegTearsDown, RegEnds, Has, Drop, NoFault, StopTunnel, Fault, service, pass
  <2>7. IdentityInv'
    BY <1>3, AccountsAssumption
    DEF IInv, TypeOK, IdentityInv, OwnIdentity, TailInv, EmptyInv, RegInv, StartInv, Starting,
        Empty, RegTearsDown, RegEnds, Has, Drop, NoFault, StopTunnel, Fault, service, pass
  <2>8. StartInv'
    BY <1>3, AccountsAssumption
    DEF IInv, TypeOK, StartInv, OwnIdentity, Starting, IdentityInv, RegTearsDown, RegEnds,
        Has, Drop, NoFault, StopTunnel, Fault, service, pass
  <2>9. RunsOnOwnIdentity'
    BY <1>3, AccountsAssumption
    DEF IInv, TypeOK, RunsOnOwnIdentity, StartInv, OwnIdentity, Starting, RegTearsDown,
        RegEnds, Has, Drop, NoFault, StopTunnel, Fault, service, pass
  <2> QED
    BY <2>1, <2>2, <2>3, <2>4, <2>5, <2>6, <2>7, <2>8, <2>9 DEF IInv
<1>4. CASE RegFails
  <2>1. TypeOK'
    BY <1>4 DEF IInv, TypeOK, Someone, Kinds, RegInv, RegFails, RegEnds, service, disk, pass
  <2>2. RegInv'
    BY <1>4, AccountsAssumption DEF IInv, TypeOK, RegInv, RegFails, RegEnds, service, disk, pass
  <2>3. CredentialsInv'
    BY <1>4, AccountsAssumption
    DEF IInv, TypeOK, CredentialsInv, RegInv, RegFails, RegEnds, service, disk, pass
  <2>4. SlotHasWorker' /\ TailInv' /\ EmptyInv' /\ IdentityInv' /\ StartInv' /\ RunsOnOwnIdentity'
    BY <1>4
    DEF IInv, TailInv, EmptyInv, IdentityInv, OwnIdentity, StartInv, RunsOnOwnIdentity,
        SlotHasWorker, Empty, Starting, RegFails, service, disk, pass
  <2> QED
    BY <2>1, <2>2, <2>3, <2>4 DEF IInv
<1>5. CASE RegStores
  <2>1. TypeOK'
    <3>1. ({tunnel, provider, identity, jwt, regFor} \subseteq Someone)'
      BY <1>5 DEF IInv, TypeOK, RegInv, RegStores, RegEnds, service, pass, Someone
    <3>2. (/\ files \subseteq {"marker", "saved"}
           /\ flags \subseteq {"loggedIn", "owed", "device", "userDisconnected", "recoveryNeeded"})'
      BY <1>5 DEF IInv, TypeOK, RegInv, RegStores, RegEnds, service, pass
    <3>3. (/\ faults \in 0 .. MaxFaults
           /\ history \subseteq {"lost", "kept", "identityKept", "missed"})'
      BY <1>5 DEF IInv, TypeOK, RegInv, RegStores, RegEnds, service, pass
    <3>4. (/\ up \in {"up", "down"}
           /\ link \in {"none", "live", "dead"} /\ slot \in Kinds \cup {"none"}
           /\ req \in Kinds \cup {"none"})'
      BY <1>5 DEF IInv, TypeOK, RegInv, RegStores, RegEnds, service, pass, Kinds
    <3> QED
      BY <1>5, <3>1, <3>2, <3>3, <3>4
      DEF IInv, TypeOK, RegInv, RegStores, RegEnds, service, pass
  <2>2. RegInv'
    BY <1>5, AccountsAssumption DEF IInv, TypeOK, RegInv, RegStores, RegEnds, service, pass
  <2>3. CredentialsInv'
    BY <1>5, AccountsAssumption
    DEF IInv, TypeOK, CredentialsInv, RegInv, RegStores, RegEnds, service, pass
  <2>4. EmptyInv'
    BY <1>5, AccountsAssumption
    DEF IInv, TypeOK, EmptyInv, Empty, RegInv, TailInv, StartInv, OwnIdentity, Starting,
        RegStores, RegEnds, service, pass
  <2>5. IdentityInv'
    BY <1>5, AccountsAssumption
    DEF IInv, TypeOK, IdentityInv, OwnIdentity, TailInv, EmptyInv, RegInv, StartInv, Starting,
        Empty, RegStores, RegEnds, service, pass
  <2>6. StartInv'
    BY <1>5, AccountsAssumption
    DEF IInv, TypeOK, StartInv, OwnIdentity, Starting, IdentityInv, RegStores, RegEnds,
        service, pass
  <2>7. RunsOnOwnIdentity'
    BY <1>5, AccountsAssumption
    DEF IInv, TypeOK, RunsOnOwnIdentity, StartInv, OwnIdentity, Starting, RegStores,
        RegEnds, service, pass
  <2>8. SlotHasWorker' /\ TailInv'
    BY <1>5 DEF IInv, TailInv, SlotHasWorker, Empty, RegStores, service, pass
  <2> QED
    BY <2>1, <2>2, <2>3, <2>4, <2>5, <2>6, <2>7, <2>8 DEF IInv
<1>6. CASE RegApplies
  <2>1. TypeOK'
    <3>1. ({tunnel, provider, identity, jwt, regFor} \subseteq Someone)'
      BY <1>6
      DEF IInv, TypeOK, RegInv, RegApplies, RegEnds, Ask, Covered, service, disk, Someone
    <3>2. (/\ files \subseteq {"marker", "saved"}
           /\ flags \subseteq {"loggedIn", "owed", "device", "userDisconnected", "recoveryNeeded"})'
      BY <1>6 DEF IInv, TypeOK, RegInv, RegApplies, RegEnds, Ask, Covered, service, disk
    <3>3. (/\ faults \in 0 .. MaxFaults
           /\ history \subseteq {"lost", "kept", "identityKept", "missed"})'
      BY <1>6 DEF IInv, TypeOK, RegInv, RegApplies, RegEnds, Ask, Covered, service, disk
    <3>4. (/\ up \in {"up", "down"}
           /\ link \in {"none", "live", "dead"} /\ slot \in Kinds \cup {"none"}
           /\ req \in Kinds \cup {"none"})'
      BY <1>6 DEF IInv, TypeOK, RegInv, RegApplies, RegEnds, Ask, Covered, service, disk, Kinds
    <3> QED
      BY <1>6, <3>1, <3>2, <3>3, <3>4
      DEF IInv, TypeOK, RegInv, RegApplies, RegEnds, Ask, Covered, service, disk
  <2>2. SlotHasWorker'
    BY <1>6, AccountsAssumption
    DEF IInv, TypeOK, SlotHasWorker, RegApplies, RegEnds, Ask, Covered, service,
        disk
  <2>3. RegInv'
    BY <1>6, AccountsAssumption
    DEF IInv, TypeOK, RegInv, RegApplies, RegEnds, Ask, Covered, service, disk
  <2>4. CredentialsInv'
    BY <1>6, AccountsAssumption
    DEF IInv, TypeOK, CredentialsInv, RegInv, RegApplies, RegEnds, Ask, Covered, service,
        disk
  <2>5. TailInv'
    BY <1>6, AccountsAssumption
    DEF IInv, TypeOK, TailInv, Empty, RegApplies, RegEnds, Ask, Covered, service,
        disk
  <2>6. EmptyInv'
    BY <1>6, AccountsAssumption
    DEF IInv, TypeOK, EmptyInv, Empty, RegInv, TailInv, StartInv, OwnIdentity, Starting,
        RegApplies, RegEnds, Ask, Covered, service, disk
  <2>7. IdentityInv'
    BY <1>6, AccountsAssumption
    DEF IInv, TypeOK, IdentityInv, OwnIdentity, TailInv, EmptyInv, RegInv, StartInv, Starting,
        Empty, RegApplies, RegEnds, Ask, Covered, service, disk
  <2>8. StartInv'
    BY <1>6, AccountsAssumption
    DEF IInv, TypeOK, StartInv, OwnIdentity, Starting, IdentityInv, RegApplies, RegEnds,
        Ask, Covered, service, disk
  <2>9. RunsOnOwnIdentity'
    BY <1>6 DEF IInv, RunsOnOwnIdentity, RegApplies, service, disk
  <2> QED
    BY <2>1, <2>2, <2>3, <2>4, <2>5, <2>6, <2>7, <2>8, <2>9 DEF IInv
<1> QED
  BY <1>1, <1>2, <1>3, <1>4, <1>5, <1>6 DEF Registration

\* A step of the watchdog, or of the reader that reports a dead channel, keeps the invariant.
LEMMA WatchKeeps == ASSUME IInv, Watch \/ OnServiceDisconnected PROVE IInv'
<1>1. CASE WatchEnds
  <2>1. TypeOK'
    BY <1>1 DEF IInv, TypeOK, Someone, Kinds, WatchEnds, Idle, Has, service, disk, pass, signIn
  <2>2. /\ SlotHasWorker' /\ RegInv' /\ CredentialsInv' /\ TailInv' /\ EmptyInv'
        /\ IdentityInv' /\ StartInv' /\ RunsOnOwnIdentity'
    BY <1>1
    DEF IInv, RegInv, CredentialsInv, TailInv, EmptyInv, IdentityInv, OwnIdentity, StartInv,
        RunsOnOwnIdentity, SlotHasWorker, Empty, Starting, WatchEnds, service, disk, pass,
        signIn
  <2> QED
    BY <2>1, <2>2 DEF IInv
<1>2. CASE WatchWakes
  <2>1. TypeOK'
    BY <1>2 DEF IInv, TypeOK, Someone, Kinds, WatchWakes, Idle, Has, service, disk, pass, signIn
  <2>2. /\ SlotHasWorker' /\ RegInv' /\ CredentialsInv' /\ TailInv' /\ EmptyInv'
        /\ IdentityInv' /\ StartInv' /\ RunsOnOwnIdentity'
    BY <1>2
    DEF IInv, RegInv, CredentialsInv, TailInv, EmptyInv, IdentityInv, OwnIdentity, StartInv,
        RunsOnOwnIdentity, SlotHasWorker, Empty, Starting, WatchWakes, service, disk, pass,
        signIn
  <2> QED
    BY <2>1, <2>2 DEF IInv
<1>3. CASE WatchAsks
  <2>1. TypeOK'
    BY <1>3 DEF IInv, TypeOK, Someone, Kinds, WatchAsks, Ask, Covered, service, disk, signIn
  <2>2. SlotHasWorker'
    BY <1>3, AccountsAssumption
    DEF IInv, TypeOK, SlotHasWorker, WatchAsks, Ask, Covered, service, disk,
        signIn
  <2>3. TailInv'
    BY <1>3, AccountsAssumption
    DEF IInv, TypeOK, TailInv, Empty, WatchAsks, Ask, Covered, service, disk,
        signIn
  <2>4. StartInv'
    BY <1>3, AccountsAssumption
    DEF IInv, TypeOK, StartInv, OwnIdentity, Starting, IdentityInv, WatchAsks, Ask, Covered,
        service, disk, signIn
  <2>5. RegInv' /\ CredentialsInv' /\ EmptyInv' /\ IdentityInv' /\ RunsOnOwnIdentity'
    BY <1>3
    DEF IInv, RegInv, CredentialsInv, EmptyInv, IdentityInv, OwnIdentity, RunsOnOwnIdentity,
        Empty, WatchAsks, service, disk, signIn
  <2> QED
    BY <2>1, <2>2, <2>3, <2>4, <2>5 DEF IInv
<1>4. CASE WatchGivesUp
  <2>1. TypeOK'
    BY <1>4 DEF IInv, TypeOK, Someone, Kinds, WatchGivesUp, service, disk, pass, signIn
  <2>2. SlotHasWorker'
    BY <1>4, AccountsAssumption
    DEF IInv, TypeOK, SlotHasWorker, WatchGivesUp, service, disk, pass, signIn
  <2>3. RegInv'
    BY <1>4, AccountsAssumption
    DEF IInv, TypeOK, RegInv, WatchGivesUp, service, disk, pass, signIn
  <2>4. CredentialsInv'
    BY <1>4, AccountsAssumption
    DEF IInv, TypeOK, CredentialsInv, RegInv, WatchGivesUp, service, disk, pass, signIn
  <2>5. TailInv'
    BY <1>4, AccountsAssumption
    DEF IInv, TypeOK, TailInv, Empty, WatchGivesUp, service, disk, pass, signIn
  <2>6. EmptyInv'
    BY <1>4, AccountsAssumption
    DEF IInv, TypeOK, EmptyInv, Empty, RegInv, TailInv, StartInv, OwnIdentity, Starting,
        WatchGivesUp, service, disk, pass, signIn
  <2>7. IdentityInv'
    BY <1>4, AccountsAssumption
    DEF IInv, TypeOK, IdentityInv, OwnIdentity, TailInv, EmptyInv, RegInv, StartInv, Starting,
        Empty, WatchGivesUp, service, disk, pass, signIn
  <2>8. StartInv'
    BY <1>4, AccountsAssumption
    DEF IInv, TypeOK, StartInv, OwnIdentity, Starting, IdentityInv, WatchGivesUp, service,
        disk, pass, signIn
  <2>9. RunsOnOwnIdentity'
    BY <1>4 DEF IInv, RunsOnOwnIdentity, WatchGivesUp, service, disk, pass, signIn
  <2> QED
    BY <2>1, <2>2, <2>3, <2>4, <2>5, <2>6, <2>7, <2>8, <2>9 DEF IInv
<1>5. CASE WatchLeaves
  <2>1. TypeOK'
    BY <1>5 DEF IInv, TypeOK, Someone, Kinds, WatchLeaves, service, disk, pass, signIn
  <2>2. /\ SlotHasWorker' /\ RegInv' /\ CredentialsInv' /\ TailInv' /\ EmptyInv'
        /\ IdentityInv' /\ StartInv' /\ RunsOnOwnIdentity'
    BY <1>5
    DEF IInv, RegInv, CredentialsInv, TailInv, EmptyInv, IdentityInv, OwnIdentity, StartInv,
        RunsOnOwnIdentity, SlotHasWorker, Empty, Starting, WatchLeaves, service, disk, pass,
        signIn
  <2> QED
    BY <2>1, <2>2 DEF IInv
<1>6. CASE OnServiceDisconnected
  <2>1. TypeOK'
    BY <1>6
    DEF IInv, TypeOK, Someone, Kinds, OnServiceDisconnected, ScheduleServiceRetry, service,
        disk, pass, signIn
  <2>2. SlotHasWorker'
    BY <1>6, AccountsAssumption
    DEF IInv, TypeOK, SlotHasWorker, OnServiceDisconnected, ScheduleServiceRetry,
        service, disk, pass, signIn
  <2>3. RegInv'
    BY <1>6, AccountsAssumption
    DEF IInv, TypeOK, RegInv, OnServiceDisconnected, ScheduleServiceRetry, service, disk,
        pass, signIn
  <2>4. CredentialsInv'
    BY <1>6, AccountsAssumption
    DEF IInv, TypeOK, CredentialsInv, RegInv, OnServiceDisconnected, ScheduleServiceRetry,
        service, disk, pass, signIn
  <2>5. TailInv'
    BY <1>6, AccountsAssumption
    DEF IInv, TypeOK, TailInv, Empty, OnServiceDisconnected,
        ScheduleServiceRetry, service, disk, pass, signIn
  <2>6. EmptyInv'
    BY <1>6, AccountsAssumption
    DEF IInv, TypeOK, EmptyInv, Empty, RegInv, TailInv, StartInv, OwnIdentity, Starting,
        OnServiceDisconnected, ScheduleServiceRetry, service, disk, pass, signIn
  <2>7. IdentityInv'
    BY <1>6, AccountsAssumption
    DEF IInv, TypeOK, IdentityInv, OwnIdentity, TailInv, EmptyInv, RegInv, StartInv, Starting,
        Empty, OnServiceDisconnected, ScheduleServiceRetry, service, disk, pass, signIn
  <2>8. StartInv'
    BY <1>6, AccountsAssumption
    DEF IInv, TypeOK, StartInv, OwnIdentity, Starting, IdentityInv, OnServiceDisconnected,
        ScheduleServiceRetry, service, disk, pass, signIn
  <2>9. RunsOnOwnIdentity'
    BY <1>6, AccountsAssumption
    DEF IInv, TypeOK, RunsOnOwnIdentity, StartInv, OwnIdentity, Starting, OnServiceDisconnected,
        ScheduleServiceRetry, service, disk, pass, signIn
  <2> QED
    BY <2>1, <2>2, <2>3, <2>4, <2>5, <2>6, <2>7, <2>8, <2>9 DEF IInv
<1> QED
  BY <1>1, <1>2, <1>3, <1>4, <1>5, <1>6 DEF Watch

\* What ends, starts or breaks under the app keeps the invariant.
LEMMA WorldKeeps ==
  ASSUME IInv, ServiceEnds \/ ServiceStarts \/ PipeDrops \/ AppRestarts PROVE IInv'
<1>1. CASE ServiceEnds
  <2>1. TypeOK'
    BY <1>1, FaultsAssumption
    DEF IInv, TypeOK, Someone, Kinds, ServiceEnds, Fault, disk, pass, signIn
  <2>2. TailInv'
    BY <1>1, AccountsAssumption
    DEF IInv, TypeOK, TailInv, Empty, ServiceEnds, Fault, disk, pass, signIn
  <2>3. EmptyInv'
    BY <1>1, AccountsAssumption
    DEF IInv, TypeOK, EmptyInv, Empty, RegInv, TailInv, StartInv, OwnIdentity, Starting,
        ServiceEnds, Fault, disk, pass, signIn
  <2>4. RunsOnOwnIdentity'
    BY <1>1, AccountsAssumption
    DEF IInv, TypeOK, RunsOnOwnIdentity, StartInv, OwnIdentity, Starting, ServiceEnds,
        Fault, disk, pass, signIn
  <2>5. SlotHasWorker' /\ RegInv' /\ CredentialsInv' /\ IdentityInv' /\ StartInv'
    BY <1>1
    DEF IInv, RegInv, CredentialsInv, IdentityInv, OwnIdentity, StartInv, SlotHasWorker,
        Starting, ServiceEnds, disk, pass, signIn
  <2> QED
    BY <2>1, <2>2, <2>3, <2>4, <2>5 DEF IInv
<1>2. CASE ServiceStarts
  <2>1. TypeOK'
    BY <1>2 DEF IInv, TypeOK, Someone, Kinds, ServiceStarts, disk, pass, signIn
  <2>2. /\ SlotHasWorker' /\ RegInv' /\ CredentialsInv' /\ TailInv' /\ EmptyInv'
        /\ IdentityInv' /\ StartInv' /\ RunsOnOwnIdentity'
    BY <1>2
    DEF IInv, RegInv, CredentialsInv, TailInv, EmptyInv, IdentityInv, OwnIdentity, StartInv,
        RunsOnOwnIdentity, SlotHasWorker, Empty, Starting, ServiceStarts, disk, pass, signIn
  <2> QED
    BY <2>1, <2>2 DEF IInv
<1>3. CASE PipeDrops
  <2>1. TypeOK'
    BY <1>3, FaultsAssumption
    DEF IInv, TypeOK, Someone, Kinds, PipeDrops, Fault, service, disk, pass, signIn
  <2>2. /\ SlotHasWorker' /\ RegInv' /\ CredentialsInv' /\ TailInv' /\ EmptyInv'
        /\ IdentityInv' /\ StartInv' /\ RunsOnOwnIdentity'
    BY <1>3
    DEF IInv, RegInv, CredentialsInv, TailInv, EmptyInv, IdentityInv, OwnIdentity, StartInv,
        RunsOnOwnIdentity, SlotHasWorker, Empty, Starting, PipeDrops, service, disk, pass,
        signIn
  <2> QED
    BY <2>1, <2>2 DEF IInv
<1>4. CASE AppRestarts
  <2>1. TypeOK'
    BY <1>4, FaultsAssumption
    DEF IInv, TypeOK, Someone, Kinds, AppRestarts, Load, Undelivered, Has, Fault, service, disk
  <2>2. SlotHasWorker'
    BY <1>4, AccountsAssumption
    DEF IInv, TypeOK, SlotHasWorker, AppRestarts, Load, Undelivered, Has, Fault, service, disk
  <2>3. RegInv'
    BY <1>4, AccountsAssumption
    DEF IInv, TypeOK, RegInv, AppRestarts, Load, Undelivered, Has, Fault, service, disk
  <2>4. CredentialsInv'
    BY <1>4, AccountsAssumption
    DEF IInv, TypeOK, CredentialsInv, RegInv, AppRestarts, Load, Undelivered, Has, Fault,
        service, disk
  <2>5. TailInv'
    BY <1>4, AccountsAssumption
    DEF IInv, TypeOK, TailInv, Empty, AppRestarts, Load, Undelivered, Has, Fault, service, disk
  <2>6. EmptyInv'
    BY <1>4, AccountsAssumption
    DEF IInv, TypeOK, EmptyInv, Empty, RegInv, TailInv, StartInv, OwnIdentity, Starting,
        AppRestarts, Load, Undelivered, Has, Fault, service, disk
  <2>7. IdentityInv'
    BY <1>4, AccountsAssumption
    DEF IInv, TypeOK, IdentityInv, OwnIdentity, TailInv, EmptyInv, RegInv, StartInv, Starting,
        Empty, AppRestarts, Load, Undelivered, Has, Fault, service, disk
  <2>8. StartInv'
    BY <1>4, AccountsAssumption
    DEF IInv, TypeOK, StartInv, OwnIdentity, Starting, IdentityInv, AppRestarts, Load,
        Undelivered, Has, Fault, service, disk
  <2>9. RunsOnOwnIdentity'
    BY <1>4, AccountsAssumption
    DEF IInv, TypeOK, RunsOnOwnIdentity, StartInv, OwnIdentity, Starting, AppRestarts, Load,
        Undelivered, Has, Fault, service, disk
  <2> QED
    BY <2>1, <2>2, <2>3, <2>4, <2>5, <2>6, <2>7, <2>8, <2>9 DEF IInv
<1> QED
  BY <1>1, <1>2, <1>3, <1>4

\* The invariant holds at the start.
LEMMA InitIInv == Init => IInv
BY AccountsAssumption, FaultsAssumption
DEF Init, IInv, TypeOK, SlotHasWorker, RegInv,
   CredentialsInv, TailInv, EmptyInv, IdentityInv, OwnIdentity, StartInv, RunsOnOwnIdentity,
   Starting, Empty, Someone, Kinds

\* A stuttering step keeps the invariant.
LEMMA StutterKeeps == ASSUME IInv, UNCHANGED vars PROVE IInv'
BY DEF IInv, TypeOK, SlotHasWorker, RegInv, CredentialsInv, TailInv, EmptyInv,
   IdentityInv, OwnIdentity, StartInv, RunsOnOwnIdentity, Starting, Empty,
   vars, service, disk, pass, signIn

\* The inductive invariant holds of every behaviour, fair or not.
THEOREM SpecIInv == Spec => []IInv
<1>1. IInv /\ [Next]_vars => IInv'
  BY RequestKeeps, WorkerKeeps, TailKeeps, SignInKeeps, WatchKeeps, WorldKeeps, StutterKeeps
  DEF Next, Registration, Watch, Tail, Worker
<1> QED
  BY InitIInv, <1>1, PTL DEF Spec

\* SdkHost's session state stays in range, and whoever holds mutex_ is inside it.
THEOREM AccountTypeCorrect == Spec => []TypeOK
<1>1. IInv => TypeOK
  BY DEF IInv
<1> QED
  BY SpecIInv, <1>1, PTL

\* The next account never runs on the old identity, unless a sign-out was lost or
\* its identity could not be removed: for any accounts and any number of lost
\* requests, restarts, broken channels and files not written or removed.
THEOREM NobodyRunsOnAnothersIdentity == Spec => []RunsOnOwnIdentity
<1>1. IInv => RunsOnOwnIdentity
  BY DEF IInv
<1> QED
  BY SpecIInv, <1>1, PTL

\* A sign-out that is over, owed no more and not lost has left nothing with the
\* service but an identity whose files it failed to remove.
THEOREM SignOutLeavesNothing == Spec => []SignedOutLeavesNothing
<1>1. IInv => SignedOutLeavesNothing
  BY DEF IInv, EmptyInv, Empty, SignedOutLeavesNothing, Has
<1> QED
  BY SpecIInv, <1>1, PTL

\* No registration brings back the credentials a sign-out removed.
THEOREM SignOutIsNotUndone == Spec => []SignedOutForgets
<1>1. IInv => SignedOutForgets
  BY DEF IInv, CredentialsInv, SignedOutForgets, Has
<1> QED
  BY SpecIInv, <1>1, PTL

\* A waiting request always has a worker to take it.
THEOREM RequestIsNotStranded == Spec => []SlotHasWorker
<1>1. IInv => SlotHasWorker
  BY DEF IInv
<1> QED
  BY SpecIInv, <1>1, PTL
=============================================================================
