-------------------------------- MODULE Boot --------------------------------
(***************************************************************************)
(* Hosts that run "wdrip init" (cmd/wdrip/init, boot/*.go): where each one *)
(* gets its configuration from, and the actions it then runs.  A cluster   *)
(* begins with a host that has a local configuration or recovers a backup; *)
(* the other hosts ask the operator.  In the coordinator flow all hosts    *)
(* register with the server of "wdrip bootstrap" (apiserver/..., context)  *)
(* through the client of client/rest.  Certificate authorities are         *)
(* numbered in the order in which they are made.                           *)
(***************************************************************************)
EXTENDS NodeActions, Integers, FiniteSets

CONSTANTS
  First,      \* the host that begins the cluster
  Masters,    \* further masters
  Workers,
  Expected,   \* ExpectedMasterCnt, and initial-count of the coordinator
  IpLength,   \* characters of an address
  Tries,      \* attempts of Request.Do
  Polls,      \* rounds of a wait.Poll before its timeout
  MaxMishaps  \* bound: failures, lost replies, kills

Hosts == {First} \cup Masters \cup Workers

ASSUME BootAssumption ==
  /\ First \notin Masters \cup Workers /\ Masters \cap Workers = {} /\ IsFiniteSet(Hosts)
  /\ Expected \in Nat /\ IpLength \in Nat /\ IpLength >= 7
  /\ Tries \in Nat \ {0} /\ Polls \in Nat \ {0} /\ MaxMishaps \in Nat

VARIABLES
  flow, role, \* how the hosts are started, and the role of each
  given,      \* the local configuration has the certificate authorities
  disk,       \* host -> file -> authority that it was made with
  proc,       \* host -> its init
  info,       \* host -> NodeInfoObject
  index,      \* the authority in the entry of the recovered cluster
  server, request,   \* coordinator, and what it does for a host
  oper,       \* configuration that the operator serves
  fresh,      \* authorities made so far
  lost,       \* a wdrip.cfg.gen could not be written
  mishaps

vars == <<flow, role, given, disk, proc, info, index, server, request, oper, fresh, lost, mishaps>>

NoInfo == [ca |-> 0, etcd |-> {}]
NoProc == [pc |-> "idle", at |-> 0, tries |-> 0, polls |-> 0, body |-> FALSE]
NoRequest == [at |-> "none", address |-> {}]
Torn == {"torn"}  \* a string that was read while it was written

\* Snapshots of another cluster have authority 2, the cluster's own has 1.
Init ==
  /\ flow \in {"local", "recover", "other", "coordinator"}
  /\ given = TRUE \/ (given = FALSE /\ flow = "local")
  /\ IF flow = "coordinator"
       THEN \E n \in Masters, r \in Roles :
              role = [h \in {First, n} |-> IF h = First THEN "Hybrid" ELSE r]
       ELSE role = [n \in (IF given /\ flow # "other" THEN {First} ELSE Hosts) |->
                      IF n \in Workers THEN "Worker" ELSE "Hybrid"]
  /\ disk = [n \in Hosts |-> << >>] /\ proc = [n \in Hosts |-> NoProc]
  /\ info = [n \in Hosts |-> NoInfo]
  /\ index = 1
  /\ server = [up |-> FALSE, saved |-> 0, nodes |-> {}, etcd |-> {}]
  /\ request = [n \in Hosts |-> NoRequest]
  /\ oper = NoInfo /\ lost = FALSE /\ mishaps = 0
  /\ fresh = IF flow = "other" THEN 2 ELSE IF given /\ flow # "coordinator" THEN 1 ELSE 0

Fine == UNCHANGED mishaps
Mishap == mishaps < MaxMishaps /\ mishaps' = mishaps + 1

\* InitFunc
BootType(n) ==
  CASE flow = "coordinator" -> "coord"
    [] flow # "coordinator" /\ n # First -> "operator"
    [] flow = "local" /\ n = First -> "local"
    [] OTHER -> "recover"

Has(n, f) == f \in DOMAIN disk[n]
\* The init ends, and with it what it knew.
End(n, pc) ==
  /\ proc' = [proc EXCEPT ![n] = [NoProc EXCEPT !.pc = pc]]
  /\ info' = [info EXCEPT ![n] = NoInfo]
Running(n) == proc[n].pc \in {"info", "register", "credentials", "run"}
Down == {"idle", "failed", "panic"}

\* An API server, and with it the operator once it is posted.
Serving == {m \in Hosts : Has(m, "apiserver up")}
OperatorUp == oper # NoInfo /\ Serving # {}

\* The user data runs init, or somebody does, with the disk as it is.
StartInit(n) ==
  /\ n \in DOMAIN role /\ proc[n].pc \in Down
  /\ BootType(n) = "operator" => proc[n].pc = "idle"
  /\ proc' = [proc EXCEPT ![n] = [NoProc EXCEPT !.pc =
                IF BootType(n) = "coord" THEN "register" ELSE "info", !.body = TRUE]]
  /\ UNCHANGED <<flow, role, given, disk, info, index, server, request, oper, fresh, lost, mishaps>>

\* A kubelet that runs and has its configuration registers the Node.
Registered(n) == Has(n, "kubelet up") /\ Has(n, "kubelet.conf")

\* Mutant of Heal: a host whose init failed is left alone.
HealNew(n) ==
  /\ n \in DOMAIN role /\ BootType(n) = "operator" /\ OperatorUp
  /\ ~Registered(n) /\ proc[n].pc = "idle" /\ Fine
  /\ disk' = [disk EXCEPT ![n] = << >>] /\ info' = [info EXCEPT ![n] = NoInfo]
  /\ proc' = [proc EXCEPT ![n] = [NoProc EXCEPT !.pc = "info", !.body = TRUE]]
  /\ UNCHANGED <<flow, role, given, index, server, request, oper, fresh, lost>>

\* The heal loop wipes an instance without a Node and starts it again: AdmitNode
\* refuses one whose Node is there and not ready.  The throttle times are meant
\* to leave an init that runs alone; that they do not is a mishap.
Heal(n) ==
  /\ n \in DOMAIN role /\ BootType(n) = "operator" /\ OperatorUp
  /\ ~Registered(n) /\ ((proc[n].pc \in Down /\ Fine) \/ (Running(n) /\ Mishap))
  /\ disk' = [disk EXCEPT ![n] = << >>] /\ info' = [info EXCEPT ![n] = NoInfo]
  /\ proc' = [proc EXCEPT ![n] = [NoProc EXCEPT !.pc = "info", !.body = TRUE]]
  /\ UNCHANGED <<flow, role, given, index, server, request, oper, fresh, lost>>

-----------------------------------------------------------------------------
(* The configuration.                                                      *)

\* SetDefaultCredential: what is missing is made.
Authority(ca) == IF ca # 0 THEN ca ELSE fresh + 1
Made(ca) == fresh' = IF ca # 0 THEN fresh ELSE fresh + 1

Configured(n, cfg) ==
  /\ info' = [info EXCEPT ![n] = cfg]
  /\ proc' = [proc EXCEPT ![n] = [NoProc EXCEPT !.pc = "run", !.at = 1]]

\* Mutant of PreviousCA: the generated file is not looked at.
ForgottenCA(n) == IF given THEN 1 ELSE 0

\* The authorities of the configuration, else those of wdrip.cfg.gen.
PreviousCA(n) ==
  IF given THEN 1 ELSE IF Has(n, "wdrip.cfg.gen") THEN disk[n]["wdrip.cfg.gen"] ELSE 0

InitFromCfg(n) ==
  /\ proc[n].pc = "info" /\ BootType(n) = "local"
  /\ \/ /\ Configured(n, [ca |-> Authority(PreviousCA(n)), etcd |-> {}])
        /\ Made(PreviousCA(n)) /\ Fine
     \/ End(n, "failed") /\ Mishap /\ UNCHANGED fresh
  /\ UNCHANGED <<flow, role, given, disk, index, server, request, oper, lost>>

\* The entry takes the configuration of the backup, its addresses apart.
Recovered == IF flow = "other" THEN 2 ELSE index

\* Mutant of InitFromRecover: the entry is not saved.
InitFromRecoverUnsaved(n) ==
  /\ proc[n].pc = "info" /\ BootType(n) = "recover" /\ index' = index
  /\ \/ Configured(n, [ca |-> Recovered, etcd |-> {}]) /\ Fine
     \/ End(n, "failed") /\ Mishap
  /\ UNCHANGED <<flow, role, given, disk, server, request, oper, fresh, lost>>

\* The entry is saved before the host boots on it.
InitFromRecover(n) ==
  /\ proc[n].pc = "info" /\ BootType(n) = "recover"
  /\ \/ Configured(n, [ca |-> Recovered, etcd |-> {}]) /\ index' = Recovered /\ Fine
     \/ End(n, "failed") /\ Mishap /\ index' \in {index, Recovered}
  /\ UNCHANGED <<flow, role, given, disk, server, request, oper, fresh, lost>>

\* The poll of InitFromOperator ends with an answer or after five minutes.
InitFromOperator(n) ==
  /\ proc[n].pc = "info" /\ BootType(n) = "operator"
  /\ \/ OperatorUp /\ Configured(n, oper) /\ Fine
     \/ ~OperatorUp /\ End(n, "failed") /\ Fine
     \/ End(n, "failed") /\ Mishap
  /\ UNCHANGED <<flow, role, given, disk, index, server, request, oper, fresh, lost>>

-----------------------------------------------------------------------------
(* The coordinator and the client that the hosts use.                      *)

\* loadBootCfgOrDie: the authorities are in the file before anybody is served.
ServerStart ==
  /\ flow = "coordinator" /\ ~server.up /\ oper = NoInfo
  /\ server' = [up |-> TRUE, saved |-> Authority(server.saved), nodes |-> {}, etcd |-> {}]
  /\ Made(server.saved) /\ Fine
  /\ UNCHANGED <<flow, role, given, disk, proc, info, index, request, oper, lost>>

\* The cache is in memory.
ServerKill ==
  /\ server.up /\ Mishap
  /\ server' = [server EXCEPT !.up = FALSE, !.nodes = {}]
  /\ request' = [n \in Hosts |-> NoRequest]
  /\ UNCHANGED <<flow, role, given, disk, proc, info, index, oper, fresh, lost>>

\* WaitBootrap: as soon as the masters are there the operator is posted and
\* the server ends.
WaitBootrap ==
  /\ server.up /\ Cardinality(Serving) = Expected
  /\ oper' = [ca |-> server.saved, etcd |-> server.etcd]
  /\ server' = [server EXCEPT !.up = FALSE, !.nodes = {}]
  /\ request' = [n \in Hosts |-> NoRequest]
  /\ UNCHANGED <<flow, role, given, disk, proc, info, index, fresh, lost, mishaps>>

\* Mutant of Retry: one attempt too many.
RetryOnceMore(n, body) ==
  proc' = [proc EXCEPT ![n] =
    IF @.tries < Tries THEN [@ EXCEPT !.tries = proc[n].tries + 1, !.body = body]
    ELSE [NoProc EXCEPT !.pc = "failed"]]

\* Do gives up after Tries attempts, and the poll around it after Polls.
Retry(n, body) ==
  proc' = [proc EXCEPT ![n] =
    IF @.tries + 1 < Tries THEN [@ EXCEPT !.tries = proc[n].tries + 1, !.body = body]
    ELSE IF @.polls + 1 < Polls THEN [@ EXCEPT !.tries = 0, !.polls = proc[n].polls + 1, !.body = TRUE]
    ELSE [NoProc EXCEPT !.pc = "failed"]]

\* No connection: the error is retried, the body is still there.
Refused(n) ==
  /\ proc[n].pc \in {"register", "credentials"} /\ ~server.up
  /\ Retry(n, proc[n].body)
  /\ UNCHANGED <<flow, role, given, disk, info, index, server, request, oper, fresh, lost, mishaps>>

\* RegisterNode; a request whose body is gone is refused with 500, which the
\* client takes for success.
Register(n) ==
  /\ proc[n].pc = "register" /\ server.up
  /\ LET Stored == IF proc[n].body THEN [server EXCEPT !.nodes = @ \cup {n}] ELSE server
     IN  \/ /\ server' = Stored /\ Fine
            /\ proc' = [proc EXCEPT ![n].pc = "credentials", ![n].tries = 0, ![n].polls = 0]
         \/ /\ server' \in {server, Stored} /\ Mishap
            /\ Retry(n, FALSE)
  /\ UNCHANGED <<flow, role, given, disk, info, index, request, oper, fresh, lost>>

EtcdRoles == {"Hybrid", "Etcd"}

\* Credentials: a host that is not in the cache gets 404, and so an object
\* without BootCFG, on which the init panics.
CredentialsRange(n) ==
  /\ proc[n].pc = "credentials" /\ server.up /\ request[n].at = "none"
  /\ IF n \in server.nodes
       THEN /\ request' = [request EXCEPT ![n] =
                 [at |-> "ranged", address |-> {m \in server.nodes : role[m] \in EtcdRoles}]]
            /\ UNCHANGED <<proc, info>>
       ELSE End(n, "panic") /\ UNCHANGED request
  /\ UNCHANGED <<flow, role, given, disk, index, server, oper, fresh, lost, mishaps>>

\* The endpoints are written to the one configuration that all handlers share.
CredentialsSet(n) ==
  /\ request[n].at = "ranged"
  /\ server' = [server EXCEPT !.etcd = request[n].address]
  /\ request' = [request EXCEPT ![n].at = "set"]
  /\ UNCHANGED <<flow, role, given, disk, proc, info, index, oper, fresh, lost, mishaps>>

\* len() of the endpoints joined by commas.
Length(hosts) == IF hosts = {} THEN 0 ELSE Cardinality(hosts) * (IpLength + 1) - 1

\* The configuration is copied while another handler may be writing it.
CredentialsReply(n) ==
  /\ request[n].at = "set"
  /\ request' = [request EXCEPT ![n] = NoRequest]
  /\ \E etcd \in {server.etcd} \cup (IF \E m \in Hosts \ {n} : request[m].at = "ranged"
                                       THEN {Torn} ELSE {}) :
       \/ /\ role[n] = "Master" /\ Expected # 0 /\ Length(etcd) < Expected /\ Fine
          /\ UNCHANGED info
          /\ proc' = [proc EXCEPT ![n] =
               IF @.polls + 1 < Polls THEN [@ EXCEPT !.polls = proc[n].polls + 1]
               ELSE [NoProc EXCEPT !.pc = "failed"]]
       \/ /\ ~(role[n] = "Master" /\ Expected # 0 /\ Length(etcd) < Expected) /\ Fine
          /\ Configured(n, [ca |-> server.saved, etcd |-> etcd])
       \/ Mishap /\ Retry(n, TRUE) /\ UNCHANGED info
  /\ UNCHANGED <<flow, role, given, disk, index, server, oper, fresh, lost>>

-----------------------------------------------------------------------------
(* The actions.                                                            *)

Current(n) == Plan[role[n]][proc[n].at]

\* Files made with an authority; what is there already may be kept.
Write(n, files, ca) ==
  LET st == Current(n)
      new == files \ (st.keeps \cap DOMAIN disk[n])
      old == DOMAIN disk[n] \ st.removes
  IN  disk' = [disk EXCEPT ![n] = [f \in new \cup old |-> IF f \in new THEN ca ELSE disk[n][f]]]

Advance(n) ==
  proc' = [proc EXCEPT ![n] = IF @.at < Len(Plan[role[n]])
             THEN [NoProc EXCEPT !.pc = "run", !.at = proc[n].at + 1] ELSE [NoProc EXCEPT !.pc = "done"]]

\* A kubelet joins whatever API server answers.
Joins(n) == Current(n).writes = {"kubelet.conf"}
Ready(n) == Current(n).needs \subseteq DOMAIN disk[n] /\ (Joins(n) => Serving # {})

\* ActionPost writes the configuration for the operator.
Posts(n) == oper' = IF "posted" \in Current(n).writes THEN info[n] ELSE oper

RunAction(n) ==
  /\ proc[n].pc = "run" /\ Ready(n)
  /\ \E ca \in (IF Joins(n) THEN {disk[m]["ca"] : m \in Serving} ELSE {info[n].ca}) :
       Write(n, Current(n).writes, ca)
  /\ Advance(n) /\ Posts(n)
  /\ UNCHANGED <<flow, role, given, info, index, server, request, fresh, lost, mishaps>>

\* The parts that an action has done when it fails: none, all, or some.
Parts(w) == {{}, w} \cup (IF w = {} THEN {} ELSE {w \ {CHOOSE f \in w : TRUE}})

\* A bound: an action fails by itself in the flows that have one host or
\* whose hosts wait for each other.
Fails == flow # "coordinator" /\ Mishap

\* The first error ends the init.
ActionFails(n) ==
  /\ proc[n].pc = "run" /\ End(n, "failed")
  /\ \/ ~Ready(n) /\ Fine /\ UNCHANGED <<disk, oper>>
     \/ /\ Ready(n) /\ ~Joins(n) /\ Fails
        /\ \E part \in Parts(Current(n).writes) : Write(n, part, info[n].ca)
        /\ (Posts(n) \/ UNCHANGED oper)
     \/ Ready(n) /\ Joins(n) /\ Fails /\ UNCHANGED <<disk, oper>>
  /\ UNCHANGED <<flow, role, given, index, server, request, fresh, lost>>

\* A wdrip.cfg.gen that cannot be written is only logged.
GenNotWritten(n) ==
  /\ proc[n].pc = "run" /\ Current(n).writes = {"wdrip.cfg.gen"}
  /\ Fails /\ lost' = TRUE /\ Advance(n)
  /\ UNCHANGED <<flow, role, given, disk, info, index, server, request, oper, fresh>>

Configure(n) == InitFromCfg(n) \/ InitFromRecover(n) \/ InitFromOperator(n)

Credentials(n) == CredentialsRange(n) \/ CredentialsSet(n) \/ CredentialsReply(n)

Step(n) ==
  \/ Configure(n) \/ Refused(n) \/ Register(n) \/ Credentials(n)
  \/ RunAction(n) \/ ActionFails(n) \/ GenNotWritten(n)

Next ==
  \/ ServerStart \/ ServerKill \/ WaitBootrap
  \/ \E n \in Hosts : StartInit(n) \/ Heal(n) \/ Step(n)

\* An init that runs goes on, and the heal loop runs for ever: a host is
\* either running or down, so that one condition does for both.
Spec == Init /\ [][Next]_vars /\ \A n \in Hosts : WF_vars(Step(n) \/ Heal(n))

-----------------------------------------------------------------------------
\* Types: every file comes from an authority that was made, and a client stops
\* when its attempts (Request.Do) and its polls are used up.
TypeOK ==
  /\ \A n \in DOMAIN role : n \in Hosts /\ role[n] \in Roles /\ given \in BOOLEAN /\ lost \in BOOLEAN
  /\ \A n \in Hosts : \A f \in DOMAIN disk[n] : disk[n][f] \in 1..fresh
  /\ \A n \in Hosts : /\ Running(n) \/ proc[n].pc \in Down \cup {"done"}
                      /\ proc[n].tries \in 0..(Tries - 1) /\ proc[n].polls \in 0..(Polls - 1)
                      /\ info[n].ca \in 0..fresh /\ request[n].address \subseteq Hosts
  /\ server.nodes \subseteq Hosts /\ server.saved \in 0..fresh /\ oper.ca \in 0..fresh
  /\ index \in 1..2 /\ mishaps \in 0..MaxMishaps

\* Whatever failed before, and however often init was run again: an action
\* finds on the host every file and service that it uses.  (A host of role
\* Master has no etcd certificates: its kubeadm init fails.)
ActionsFindTheirFiles ==
  \A n \in Hosts : proc[n].pc = "run" /\ role[n] # "Master" => Current(n).needs \subseteq DOMAIN disk[n]

\* All the certificates and configurations of a master whose init succeeded
\* come from one set of certificate authorities, also after an init that was
\* broken off with another one.
SameAuthority ==
  \A n \in DOMAIN role : proc[n].pc = "done" /\ role[n] # "Worker" /\ ~lost =>
    \A f \in Signed \cap DOMAIN disk[n] : disk[n][f] = info[n].ca

\* All masters have the same authorities, and the kubelets of the workers
\* trust them, although hosts make them, forget their memory and begin again:
\* InitFromCfg keeps those of wdrip.cfg.gen, the coordinator those of its file.
OneAuthority ==
  \A m, n \in DOMAIN role :
    proc[m].pc = "done" /\ proc[n].pc = "done" /\ role[m] # "Worker" /\ ~lost =>
      /\ info[n].ca = info[m].ca
      /\ "kubelet.conf" \in DOMAIN disk[n] => disk[n]["kubelet.conf"] = info[m].ca

\* The entry of a recovered cluster has the authorities that its hosts boot with
\* and that the operator serves, wherever a recovery was broken off and however
\* often it was begun again: the next recovery goes by the entry.
EntryMatchesHosts ==
  flow \in {"recover", "other"} =>
    /\ \A n \in Hosts : \A f \in DOMAIN disk[n] : disk[n][f] = index
    /\ \A n \in Hosts : proc[n].pc \in {"run", "done"} => info[n].ca = index
    /\ oper = NoInfo \/ oper.ca = index

\* Once the operator is posted, every other host registers its Node in the end,
\* whatever broke its inits off before.  (A host that fails later than that is
\* not started again: its Node is there.)
HostsRegister ==
  (oper # NoInfo /\ flow # "coordinator") ~> \A n \in DOMAIN role \ {First} : Registered(n)
=============================================================================
