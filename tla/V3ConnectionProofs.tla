------------------------- MODULE V3ConnectionProofs -------------------------
(***************************************************************************)
(* What an NFSv3 connect promises, for transfer sizes of any width, any    *)
(* server and any number of JUKEBOX retries.                               *)
(***************************************************************************)
EXTENDS V3Connection, Pairs, TLAPS

\* A clamped size is at least one byte, at most what the client asked for and
\* at most the server's largest when the server names one (clamp_io_size).
THEOREM ClampFits ==
    ASSUME NEW preferred \in Nat, NEW max \in Nat, NEW most \in Nat \ {0}
    PROVE  /\ clamp_io_size(preferred, max, most) \in 1..most
           /\ max # 0 => clamp_io_size(preferred, max, most) <= max
<1> DEFINE wanted == IF preferred = 0 THEN max ELSE preferred
           capped == IF max = 0 THEN wanted ELSE Min({wanted, max})
<1>1. wanted \in Nat /\ Min({wanted, max}) = IF wanted <= max THEN wanted ELSE max
  BY MinOfTwo
<1>2. capped \in Nat /\ (max # 0 => capped <= max)
  BY <1>1
<1>3. Min({capped, most}) = IF capped <= most THEN capped ELSE most
  <2> HIDE DEF capped
  <2> QED
    BY <1>2, MinOfTwo
<1> DEFINE least == Min({capped, most})
<1>4. least \in Nat /\ least <= most /\ (max # 0 => least <= max)
  <2> HIDE DEF capped
  <2> QED
    BY <1>2, <1>3
<1>5. Max({1, least}) = IF 1 >= least THEN 1 ELSE least
  <2> HIDE DEF least
  <2> QED
    BY <1>4, MaxOfTwo
<1>6. clamp_io_size(preferred, max, most) = Max({1, least})
  BY DEF clamp_io_size
<1> QED
  <2> HIDE DEF least
  <2> QED
    BY <1>4, <1>5, <1>6

-----------------------------------------------------------------------------

\* Only connect gets past MNT, with a limit the builder accepts; a connect that
\* goes on has this host's record and no lost reply, and its end has neither.
Inv ==
    /\ phase \in {"nfs_port", "nfs", "fsinfo", "cleanup", "ready"} => v3call = "connect"
    /\ v3call = "connect" /\ phase # "validate" /\ phase # "over" => limit \in 1..MaxIoBytes
    /\ v3call = "connect" /\ phase \in {"validate", "portmap", "mount", "rpc"} => recorded = {}
    /\ NoMountLeft /\ TransfersFitV3

\* For every set of transfer sizes the builder and the server may name: a
\* connect that fails and a client that is unmounted leave no MOUNT record
\* unless a MNT or UMNT went wrong, and a ready client's transfers are within
\* its own limit and the server's and never empty (connect_with_builder,
\* clamp_io_size, Client::unmount).
THEOREM ConnectionSafe ==
    ASSUME ServerSizes \subseteq Nat, MaxIoBytes \in Nat
    PROVE  Spec => [](NoMountLeft /\ TransfersFitV3)
<1> USE DEF NoMountLeft, TransfersFitV3, End, Go, kept
<1>1. Init => Inv
  BY DEF Init, Inv
<1>2. Inv /\ [Next]_vars => Inv'
  <2> SUFFICES ASSUME Inv, [Next]_vars PROVE Inv'
    OBVIOUS
  <2> USE DEF Inv
  <2>1. CASE UNCHANGED vars
    BY <2>1 DEF vars
  <2>2. CASE Validate
    BY <2>2 DEF Validate
  <2>3. CASE FindMountPort
    BY <2>3 DEF FindMountPort
  <2>4. CASE ConnectMount
    BY <2>4 DEF ConnectMount
  <2>5. CASE Mount
    BY <2>5 DEF Mount
  <2>6. CASE FindNfsPort
    BY <2>6 DEF FindNfsPort
  <2>7. CASE ConnectNfs
    BY <2>7 DEF ConnectNfs
  <2>8. CASE Fsinfo
    <3>1. CASE \E p, m \in ServerSizes :
                  /\ server' = [preferred |-> p, max |-> m]
                  /\ size' = clamp_io_size(p, m, limit)
      <4> PICK p \in ServerSizes, m \in ServerSizes :
                  /\ server' = [preferred |-> p, max |-> m]
                  /\ size' = clamp_io_size(p, m, limit)
        BY <3>1
      <4>1. limit \in Nat \ {0} /\ p \in Nat /\ m \in Nat
        BY <2>8 DEF Fsinfo
      <4>2. size' \in 1..limit /\ (m # 0 => size' <= m)
        BY <4>1, ClampFits
      <4>3. server'.max = m /\ phase' \in {"ready", "cleanup"} /\ UNCHANGED <<v3call, limit, recorded>>
        BY <2>8 DEF Fsinfo
      <4> QED
        BY <2>8, <4>2, <4>3 DEF Fsinfo
    <3>2. CASE Go("cleanup") /\ UNCHANGED <<server, size>>
      BY <2>8, <3>2 DEF Fsinfo
    <3> QED
      BY <2>8, <3>1, <3>2 DEF Fsinfo
  <2>9. CASE Jukebox
    BY <2>9 DEF Jukebox
  <2>10. CASE Cleanup
    BY <2>10 DEF Cleanup
  <2>11. CASE MountCall
    BY <2>11 DEF MountCall
  <2>12. CASE Unmount
    BY <2>12 DEF Unmount
  <2> QED
    BY <2>1, <2>2, <2>3, <2>4, <2>5, <2>6, <2>7, <2>8, <2>9, <2>10, <2>11, <2>12 DEF Next, ConnectSteps
<1>3. Inv => NoMountLeft /\ TransfersFitV3
  BY DEF Inv
<1> QED
  BY <1>1, <1>2, <1>3, PTL DEF Spec
=============================================================================
