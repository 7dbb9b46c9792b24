-------------------------- MODULE DNSConfigPatcher --------------------------
(***************************************************************************)
(* The dns-config-patcher Job: cmd/dns-config-patcher/main.go with the     *)
(* DNSServiceWatcher and the CorefilePatcher of pkg/dnsconfig.  A pod      *)
(* polls the dns-server's Service for its ClusterIP until a deadline, gets *)
(* the ConfigMap of the cluster's root DNS server, and updates it with a   *)
(* section that forwards the domain suffix to that IP.                     *)
(*                                                                         *)
(* A Corefile is the sequence of its server blocks and marker lines, one   *)
(* item per line or block; Blank is an empty line, which matters only      *)
(* where TrimSpace and the pattern's leading \s look.  An empty Corefile,  *)
(* or data without that key, is one empty line.  A Job is known by its     *)
(* DOMAIN_SUFFIX: two exist when the zone is changed (README.md:102) while *)
(* the first Job still retries.                                            *)
(***************************************************************************)
EXTENDS Naturals, Sequences, SequencesExt

CONSTANTS
    DomainSuffixes,     \* of the Jobs that are applied
    UserBlocks,         \* server blocks that are not the Job's
    IPs,                \* cluster IPs the Service can get
    Corefiles,          \* what the ConfigMap holds before the first Job
    BackoffLimit,       \* of the Job: retries before it is given up
    MaxEdits,           \* bound on users' edits of the ConfigMap
    MaxServiceChanges,  \* bound on assignments of the Service's IP
    MaxFaults           \* bound on failing calls, lost answers and kills

VARIABLES
    corefile, version,  \* the ConfigMap's Corefile and resource version
    clusterIP,          \* of the Service; NoIP also when there is no Service
    pod,                \* domain suffix |-> state of the Job's pod
    edits, serviceChanges, faults

patcherVars == <<corefile, version, clusterIP, pod, edits, serviceChanges, faults>>

NoIP == ""
Begin == "### BEGIN"
End == "### END"
Blank == "blank line"
NoData == <<>>          \* the ConfigMap has no data at all

(* The body of the section the Job for suffix d writes. *)
Forward(d, ip) == <<d, ip>>
Items == UserBlocks \cup {Begin, End, Blank} \cup (DomainSuffixes \X IPs)

(* sectionBegin, the forward block, sectionEnd. *)
XCCBlock(d, ip) == <<Begin, Forward(d, ip), End>>

(* Pods as they are created: nothing read yet. *)
NewPod(retries) ==
    [at |-> "poll", expired |-> FALSE, ip |-> NoIP, got |-> <<>>, gotVersion |-> 0,
     retries |-> retries]

ASSUME PatcherBounds ==
    /\ BackoffLimit \in Nat /\ MaxEdits \in Nat
    /\ MaxServiceChanges \in Nat /\ MaxFaults \in Nat

(* Blocks, markers, empty lines and the Jobs' forward blocks are told apart. *)
ASSUME ItemsAssumption ==
    /\ {Begin, End, Blank} \cap UserBlocks = {}
    /\ \A x \in UserBlocks \cup {Begin, End, Blank} : x \notin DomainSuffixes \X IPs

(* A Corefile that has at most the section of one Job, complete, as an     *)
(* earlier Job left it, and not as its very first line.                    *)
WellFormed(file) ==
    /\ file \in Seq(Items)
    /\ file # NoData => file[1] # Begin
    /\ \A i, j \in DOMAIN file : file[i] = Begin /\ file[j] = Begin => i = j
    /\ \A i \in DOMAIN file :
          file[i] = Begin => /\ i + 2 \in DOMAIN file /\ file[i + 2] = End
                             /\ file[i + 1] \in DomainSuffixes \X IPs
    /\ \A i \in DOMAIN file : file[i] = End => i > 2 /\ file[i - 2] = Begin

ASSUME CorefilesAssumption == \A f \in Corefiles : WellFormed(f)

PatcherInit ==
    /\ corefile \in Corefiles /\ version = 0
    /\ clusterIP = NoIP
    /\ pod = [d \in DomainSuffixes |-> NewPod(0)]
    /\ edits = 0 /\ serviceChanges = 0 /\ faults = 0

-----------------------------------------------------------------------------
(* The text operations. *)

(* strings.Contains *)
ContainsBlock(file, block) ==
    \E i \in 1..(Len(file) - Len(block) + 1) : SubSeq(file, i, i + Len(block) - 1) = block

TrimSpace(file) ==
    LET text == {i \in DOMAIN file : file[i] # Blank}
    IN  IF text = {} THEN <<>> ELSE SubSeq(file, Min(text), Max(text))

(* Mutant: only a section that ends the file is recognised. *)
StripXCCBlockAtEnd(file) ==
    LET begins == {i \in DOMAIN file : i > 1 /\ file[i] = Begin}
    IN  TrimSpace(IF begins # {} /\ Last(file) = End
                  THEN SubSeq(file, 1, Min(begins) - 1) ELSE file)

(* (?s)\sBEGIN.*END: from the first begin marker that follows white space, *)
(* which the start of the file does not, to the last end marker.           *)
StripXCCBlock(file) ==
    LET begins == {i \in DOMAIN file : i > 1 /\ file[i] = Begin}
        ends   == {i \in DOMAIN file : file[i] = End /\ begins # {} /\ i > Min(begins)}
    IN  TrimSpace(IF ends = {}
                  THEN file
                  ELSE SubSeq(file, 1, Min(begins) - 1)
                         \o SubSeq(file, Max(ends) + 1, Len(file)))

(* "%s\n%s\n": an empty rest leaves an empty first line. *)
Patched(file, d, ip) ==
    LET rest == StripXCCBlock(file)
    IN  (IF rest = <<>> THEN <<Blank>> ELSE rest) \o XCCBlock(d, ip)

-----------------------------------------------------------------------------
(* The pod's steps. *)

(* os.Exit(1) or a panic: the container is restarted until the Job's back- *)
(* off limit is reached.                                                   *)
PodFails(d) ==
    pod' = [pod EXCEPT ![d] =
               [NewPod(@.retries) EXCEPT
                   !.at = IF pod[d].retries < BackoffLimit THEN "backoff" ELSE "failed"]]

PodCompletes(d) ==
    pod' = [pod EXCEPT ![d] = [NewPod(@.retries) EXCEPT !.at = "complete", !.ip = pod[d].ip]]

RestartPod(d) ==
    /\ pod[d].at = "backoff"
    /\ pod' = [pod EXCEPT ![d] = NewPod(@.retries + 1)]
    /\ UNCHANGED <<corefile, version, clusterIP, edits, serviceChanges, faults>>

Fault == faults < MaxFaults /\ faults' = faults + 1

(* Mutant: a Service that has no IP yet will do. *)
GetClusterIPOfAnyService(d) ==
    /\ pod[d].at = "poll" /\ ~pod[d].expired
    /\ pod' = [pod EXCEPT ![d] = [@ EXCEPT !.at = "get", !.ip = clusterIP]]
    /\ UNCHANGED <<corefile, version, clusterIP, edits, serviceChanges, faults>>

(* The Service has an IP and the deadline has not passed. *)
GetClusterIP(d) ==
    /\ pod[d].at = "poll" /\ ~pod[d].expired /\ clusterIP # NoIP
    /\ pod' = [pod EXCEPT ![d] = [@ EXCEPT !.at = "get", !.ip = clusterIP]]
    /\ UNCHANGED <<corefile, version, clusterIP, edits, serviceChanges, faults>>

(* No Service, no IP in it, or a context that is done, with which every    *)
(* call fails: on to the select.                                           *)
NoClusterIP(d) ==
    /\ pod[d].at = "poll" /\ (pod[d].expired \/ clusterIP = NoIP)
    /\ pod' = [pod EXCEPT ![d].at = "select"]
    /\ UNCHANGED <<corefile, version, clusterIP, edits, serviceChanges, faults>>

GetServiceFails(d) ==
    /\ pod[d].at = "poll" /\ Fault
    /\ pod' = [pod EXCEPT ![d].at = "select"]
    /\ UNCHANGED <<corefile, version, clusterIP, edits, serviceChanges>>

(* The context's five seconds are over. *)
Deadline(d) ==
    /\ pod[d].at \in {"poll", "select"} /\ ~pod[d].expired
    /\ pod' = [pod EXCEPT ![d].expired = TRUE]
    /\ UNCHANGED <<corefile, version, clusterIP, edits, serviceChanges, faults>>

(* The polling interval is over; if the deadline is too, select picks      *)
(* either.                                                                 *)
PollAgain(d) ==
    /\ pod[d].at = "select"
    /\ pod' = [pod EXCEPT ![d].at = "poll"]
    /\ UNCHANGED <<corefile, version, clusterIP, edits, serviceChanges, faults>>

(* Mutant: select has no case for the context. *)
TimedOutNever(d) ==
    /\ FALSE
    /\ UNCHANGED patcherVars

TimedOut(d) ==
    /\ pod[d].at = "select" /\ pod[d].expired
    /\ PodFails(d)
    /\ UNCHANGED <<corefile, version, clusterIP, edits, serviceChanges, faults>>

(* Mutant: any section is taken for the Job's own. *)
UpToDateByMarker(d) ==
    /\ pod[d].at = "get" /\ Begin \in ToSet(corefile)
    /\ PodCompletes(d)
    /\ UNCHANGED <<corefile, version, clusterIP, edits, serviceChanges, faults>>

(* AppendStubDomainBlock gets the ConfigMap.  It is up to date ... *)
UpToDate(d) ==
    /\ pod[d].at = "get" /\ corefile # NoData
    /\ ContainsBlock(corefile, XCCBlock(d, pod[d].ip))
    /\ PodCompletes(d)
    /\ UNCHANGED <<corefile, version, clusterIP, edits, serviceChanges, faults>>

(* ... or has to be patched ... *)
GetConfigMap(d) ==
    /\ pod[d].at = "get" /\ corefile # NoData
    /\ ~ContainsBlock(corefile, XCCBlock(d, pod[d].ip))
    /\ pod' = [pod EXCEPT ![d] = [@ EXCEPT !.at = "update", !.got = corefile,
                                           !.gotVersion = version]]
    /\ UNCHANGED <<corefile, version, clusterIP, edits, serviceChanges, faults>>

(* ... or has no data: the assignment to its nil map panics. *)
NilDataPanic(d) ==
    /\ pod[d].at = "get" /\ corefile = NoData
    /\ PodFails(d)
    /\ UNCHANGED <<corefile, version, clusterIP, edits, serviceChanges, faults>>

(* Mutant: the write carries no resource version. *)
UpdateConfigMapBlindly(d) ==
    /\ pod[d].at = "update"
    /\ corefile' = Patched(pod[d].got, d, pod[d].ip)
    /\ version' = version + 1
    /\ PodCompletes(d)
    /\ UNCHANGED <<clusterIP, edits, serviceChanges, faults>>

(* Update; its answer may be lost although it took effect. *)
UpdateConfigMap(d) ==
    /\ pod[d].at = "update" /\ pod[d].gotVersion = version
    /\ corefile' = Patched(pod[d].got, d, pod[d].ip)
    /\ version' = version + 1
    /\ \/ PodCompletes(d) /\ UNCHANGED faults
       \/ PodFails(d) /\ Fault
    /\ UNCHANGED <<clusterIP, edits, serviceChanges>>

(* Mutant: the conflict is logged and the Job reports success. *)
UpdateConflictIgnored(d) ==
    /\ pod[d].at = "update" /\ pod[d].gotVersion # version
    /\ PodCompletes(d)
    /\ UNCHANGED <<corefile, version, clusterIP, edits, serviceChanges, faults>>

UpdateConflict(d) ==
    /\ pod[d].at = "update" /\ pod[d].gotVersion # version
    /\ PodFails(d)
    /\ UNCHANGED <<corefile, version, clusterIP, edits, serviceChanges, faults>>

(* A call on the ConfigMap fails, or the pod is killed. *)
PodKilled(d) ==
    /\ pod[d].at \in {"poll", "select", "get", "update"} /\ Fault
    /\ PodFails(d)
    /\ UNCHANGED <<corefile, version, clusterIP, edits, serviceChanges>>

-----------------------------------------------------------------------------
(* The world around the Jobs. *)

(* The Service is created, or created anew with another IP. *)
AssignClusterIP(ip) ==
    /\ serviceChanges < MaxServiceChanges /\ serviceChanges' = serviceChanges + 1
    /\ ip # clusterIP /\ clusterIP' = ip
    /\ UNCHANGED <<corefile, version, pod, edits, faults>>

InSection(file, i) ==       \* a line put before line i would be in the section
    \E b \in 1..(i - 1), e \in i..Len(file) :
        file[b] = Begin /\ file[e] = End /\ \A j \in b..(e - 1) : file[j] # End

EditTo(file) ==
    /\ edits < MaxEdits /\ edits' = edits + 1
    /\ corefile' = file /\ version' = version + 1
    /\ UNCHANGED <<clusterIP, pod, serviceChanges, faults>>

(* Users add and remove blocks before and after the section, but leave it  *)
(* something that it follows.                                              *)
AddBlock(u, i) ==
    /\ corefile # NoData /\ u \notin ToSet(corefile)
    /\ i \in 1..(Len(corefile) + 1) /\ ~InSection(corefile, i)
    /\ EditTo(InsertAt(corefile, i, u))

RemoveBlock(i) ==
    /\ i \in DOMAIN corefile /\ corefile[i] \in UserBlocks
    /\ i = 1 => Len(corefile) > 1 /\ corefile[2] # Begin
    /\ EditTo(RemoveAt(corefile, i))

Users ==
    \/ \E ip \in IPs : AssignClusterIP(ip)
    \/ \E u \in UserBlocks, i \in 1..(Len(corefile) + 1) : AddBlock(u, i)
    \/ \E i \in 1..Len(corefile) : RemoveBlock(i)

PodStep(d) ==
    \/ GetClusterIP(d) \/ NoClusterIP(d) \/ UpToDate(d) \/ GetConfigMap(d) \/ NilDataPanic(d)
    \/ UpdateConfigMap(d) \/ UpdateConflict(d) \/ RestartPod(d)

PatcherNext ==
    \/ Users
    \/ \E d \in DomainSuffixes :
          \/ PodStep(d) \/ GetServiceFails(d) \/ Deadline(d) \/ PollAgain(d) \/ TimedOut(d)
          \/ PodKilled(d)

PatcherSpec == PatcherInit /\ [][PatcherNext]_patcherVars

(* Pods go on and are restarted, time passes, and select, which picks at   *)
(* random among the cases that are ready, does not pass over the context   *)
(* for ever.                                                               *)
PatcherFairness ==
    \A d \in DomainSuffixes :
        /\ WF_patcherVars(PodStep(d)) /\ WF_patcherVars(PollAgain(d) \/ TimedOut(d))
        /\ WF_patcherVars(Deadline(d)) /\ SF_patcherVars(TimedOut(d))

PatcherFairSpec == PatcherSpec /\ PatcherFairness

-----------------------------------------------------------------------------
(* Properties. *)

PodStates == {"poll", "select", "get", "update", "backoff", "failed", "complete"}

(* The state has its types; a pod that patches has an IP. *)
PatcherTypeOK ==
    /\ corefile \in Seq(Items) /\ version \in Nat
    /\ clusterIP \in IPs \cup {NoIP}
    /\ \A d \in DomainSuffixes :
          /\ pod[d].at \in PodStates /\ pod[d].expired \in BOOLEAN
          /\ pod[d].ip \in IPs \cup {NoIP}
          /\ pod[d].at \in {"get", "update"} => pod[d].ip # NoIP
          /\ pod[d].got \in Seq(Items) /\ pod[d].gotVersion \in 0..version
          /\ pod[d].retries \in 0..BackoffLimit
    /\ edits \in 0..MaxEdits /\ serviceChanges \in 0..MaxServiceChanges
    /\ faults \in 0..MaxFaults

UserBlocksAt(file) == {i \in DOMAIN file : file[i] \in UserBlocks}

(* The same blocks of users, in the same order. *)
SameUserBlocks(a, b) ==
    \E m \in [UserBlocksAt(a) -> UserBlocksAt(b)] :
        /\ \A i, j \in UserBlocksAt(a) : i < j => m[i] < m[j]
        /\ \A k \in UserBlocksAt(b) : \E i \in UserBlocksAt(a) : m[i] = k
        /\ \A i \in UserBlocksAt(a) : b[m[i]] = a[i]

Sections(file) == {i \in DOMAIN file : file[i] = Begin}

(* corefile_patcher_test.go:124 "does not append a second server block",   *)
(* for every order of two Jobs' reads and writes, retries, lost answers,   *)
(* changes of the IP and edits of users: there is never more than one      *)
(* section.                                                                *)
OneSection == \A i, j \in Sections(corefile) : i = j

(* The blocks users wrote change by users' edits alone, in their order: a  *)
(* Job that replaces a section, wherever users' blocks stand around it,    *)
(* drops and moves none, and undoes no edit that came between its Get and  *)
(* its Update.  (Users write nothing between the markers.)                 *)
UserBlocksKept ==
    [][SameUserBlocks(corefile, corefile') \/ edits' # edits]_patcherVars

(* The pod has failed before, its Update having taken effect or not. *)
HasFailed(p) == p.at \in {"backoff", "failed"} \/ p.retries > 0

(* From the moment a Job reported success on, the root DNS server forwards *)
(* the zone of a Job to the IP that this Job got: of one that reported     *)
(* success too, or of one that wrote the section and lost the answer.      *)
CompleteIsForwarded ==
    (\E d \in DomainSuffixes : pod[d].at = "complete")
        => \E d \in DomainSuffixes, ip \in IPs :
              /\ ContainsBlock(corefile, XCCBlock(d, ip))
              /\ IF pod[d].at = "complete" THEN pod[d].ip = ip ELSE HasFailed(pod[d])

(* AppendStubDomainBlock returns no error only when the ConfigMap has the  *)
(* Job's own section with the IP it got, whatever came between Get and     *)
(* Update: a conflict with the other Job or a user is not a success, and   *)
(* no other section is taken for its own.                                  *)
SuccessIsOwnSection ==
    [][\A d \in DomainSuffixes :
          pod[d].at # "complete" /\ pod'[d].at = "complete"
             => ContainsBlock(corefile', XCCBlock(d, pod'[d].ip))]_patcherVars

(* A Job ends, whether the Service ever gets an IP or not. *)
JobsEnd == \A d \in DomainSuffixes : <>(pod[d].at \in {"complete", "failed"})
=============================================================================
