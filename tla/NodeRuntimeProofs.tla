-------------------------- MODULE NodeRuntimeProofs --------------------------
(***************************************************************************)
(* Node processes keep their identities, a devnet is whole when it is      *)
(* ready and gone when it is stopped, and calls get their own answers: for *)
(* any number of processes, nodes of the devnet, calls and restarts.  The  *)
(* executable that nodes share and upgrade is always a signed one.         *)
(***************************************************************************)
EXTENDS NodeRuntime, Upgrade, FiniteSetTheorems, WellFoundedInduction, TLAPS

Starting == {"bootstrapping", "spawning"}
Early == Starting \cup {"uninitialized"}

\* Exactly the first k nodes of the devnet run.
Prefix(k) == \A i \in DOMAIN Dev : life[Dev[i]] = "running" <=> i <= k

\* The nodes of the devnet in the states of its life, and what a LocalDevnet or
\* a shutdown implies for its helpers.
DevnetInv ==
    /\ \A n \in DevNode :
         /\ life[n] \in {"down", "identity", "running", "stopping"}
         /\ life[n] = "identity" => phase \in Starting
         /\ life[n] = "stopping" => phase = "shutting"
         /\ phase \in {"uninitialized", "stopped"} => life[n] = "down"
         /\ phase \in {"stabilizing", "ready"} => life[n] = "running"
         /\ phase \in {"shutting", "stopped"} => routing[n] # "on"
    /\ phase \in Starting => \E k \in 0 .. Len(Dev) - 1 : Prefix(k)
    /\ phase = "ready" => monitor = "on"
    /\ phase \in {"shutting", "stopped"} => monitor # "on" /\ wt # "on"
    /\ world = "local" /\ phase \notin {"uninitialized", "dropped", "stopped"} => chain

\* A process whose directory was overwritten shares it with another, and so
\* does one that is about to overwrite an explicit directory.
SharedInv ==
    /\ "default" \notin overwritten
    /\ \A n \in Solo : Explicit(n) => \A i, j \in keys[Root(n)] : i = j
    /\ \A n \in Solo :
         \/ Root(n) \in overwritten
         \/ life[n] = "mint" /\ Explicit(n) /\ keys[Root(n)] # {}
         => \E m \in Solo \ {n} : Root(m) = Root(n)

\* The identities a process has run with are on its disk, which was empty when
\* it set out to mint one and holds the one it is about to load, unless the key
\* there was overwritten.
OnDisk(n) ==
    /\ past[n] \subseteq keys[Root(n)]
    /\ life[n] = "mint" => past[n] = {}
    /\ life[n] = "load" => ident[n] \in keys[Root(n)] /\ past[n] \subseteq {ident[n]}

\* A node of the devnet has no identity until it runs.
IdentityInv ==
    /\ SharedInv
    /\ \A n \in Solo : Root(n) \notin overwritten => OnDisk(n)
    /\ \A n \in DevNode : phase \in Early /\ life[n] # "running" => past[n] = {}
    /\ \A n \in Node : n \in DevNode \/ Root(n) \notin overwritten => \A i, j \in past[n] : i = j

RuntimeInv == TypeOK /\ DevnetInv /\ IdentityInv

\* The directories of processes and of devnet nodes are apart.
LEMMA RootFacts ==
    ASSUME TypeOK
    PROVE  /\ \A n \in Solo : /\ n \in Node /\ n \notin DevNode /\ root[n] \in Dirs
                              /\ Root(n) = root[n] /\ Root(n) \in Roots /\ Root(n) \notin DevNode
                              /\ Explicit(n) <=> Root(n) # "default"
           /\ \A n \in DevNode : n \in Node /\ n \notin Solo /\ n \in Roots /\ Root(n) = n
<1>1. ASSUME NEW n \in Solo
      PROVE  /\ n \in Node /\ n \notin DevNode /\ root[n] \in Dirs
             /\ Root(n) = root[n] /\ Root(n) \in Roots /\ Root(n) \notin DevNode
             /\ Explicit(n) <=> Root(n) # "default"
  BY NodeAssumption DEF Root, Roots, Node, Explicit, TypeOK
<1>2. ASSUME NEW n \in DevNode PROVE n \in Node /\ n \notin Solo /\ n \in Roots /\ Root(n) = n
  BY NodeAssumption DEF Node, Roots, Root
<1> QED
  BY <1>1, <1>2

LEMMA DevFacts ==
    /\ Len(Dev) \in Nat /\ DOMAIN Dev = 1 .. Len(Dev) /\ BootCount \in 1 .. Len(Dev) - 1
    /\ \A i \in 1 .. Len(Dev) : Dev[i] \in DevNode
    /\ \A n \in DevNode : \E i \in 1 .. Len(Dev) : n = Dev[i]
    /\ \A i, j \in 1 .. Len(Dev) : Dev[i] = Dev[j] => i = j
BY NodeAssumption DEF DevNode

LEMMA RuntimeInit == Init => RuntimeInv
<1> SUFFICES ASSUME Init PROVE RuntimeInv
  OBVIOUS
<1>1. TypeOK
  <2>1. [n \in Node |-> <<>>] \in [Node -> Seq(Req \cup {Other})]
    OBVIOUS
  <2>2. \A n \in Node : Len([m \in Node |-> <<>>][n]) <= Cap
    BY BoundAssumption
  <2>3. [c \in Req |-> [st |-> "idle", peer |-> Other, got |-> Other]]
          \in [Req -> [st : {"idle", "waiting", "done", "error", "timeout"},
                       peer : Node \cup {Other}, got : Req \cup {Other}]]
    OBVIOUS
  <2> QED
    BY <2>1, <2>2, <2>3, NodeAssumption DEF Init, TypeOK, Life, Phase, Task
<1>2. DevnetInv
  BY <1>1, RootFacts DEF Init, DevnetInv, Starting
<1>3. IdentityInv
  BY <1>1, RootFacts DEF Init, IdentityInv, SharedInv, OnDisk
<1> QED
  BY <1>1, <1>2, <1>3 DEF RuntimeInv
-----------------------------------------------------------------------------
(* What a step leaves alone *)

\* A step of processes, routing tasks or calls: the devnet stays as it is.
LEMMA DevnetKept ==
    ASSUME DevnetInv, UNCHANGED <<devnet, setting>>,
           \A n \in DevNode : life'[n] = life[n] /\ (routing[n] # "on" => routing'[n] # "on")
    PROVE  DevnetInv'
<1>1. ASSUME phase \in Starting PROVE \E k \in 0 .. Len(Dev) - 1 : Prefix(k)'
  <2>1. PICK k \in 0 .. Len(Dev) - 1 : Prefix(k)
    BY <1>1 DEF DevnetInv
  <2> QED
    BY <2>1, DevFacts DEF Prefix
<1> QED
  BY <1>1 DEF DevnetInv, devnet, Starting, setting

\* A step that leaves the keys of processes alone.
LEMMA SharedQuiet ==
    ASSUME SharedInv, UNCHANGED <<overwritten, setting>>,
           \A n \in Solo : keys'[Root(n)] = keys[Root(n)],
           \A n \in Solo : life'[n] = "mint" => life[n] = "mint"
    PROVE  SharedInv'
BY DEF SharedInv, Root, Explicit, setting

\* A step with no identity in it.
LEMMA IdentityQuiet ==
    ASSUME IdentityInv, UNCHANGED <<past, overwritten, setting>>,
           \A n \in Solo : keys'[Root(n)] = keys[Root(n)],
           \A n \in Solo : life'[n] = "mint" => life[n] = "mint",
           \A n \in Solo : life'[n] = "load" => life[n] = "load" /\ ident'[n] = ident[n],
           \A n \in DevNode : phase' \in Early /\ life'[n] # "running" =>
                                phase \in Early /\ life[n] # "running"
    PROVE  IdentityInv'
<1> USE DEF Root, Explicit, setting
<1>1. SharedInv'
  BY SharedQuiet DEF IdentityInv
<1>2. ASSUME NEW n \in Solo, (Root(n) \notin overwritten)' PROVE OnDisk(n)'
  BY <1>2 DEF IdentityInv, OnDisk
<1>3. \A n \in DevNode : phase' \in Early /\ life'[n] # "running" => past'[n] = {}
  BY DEF IdentityInv
<1>4. \A n \in Node : n \in DevNode \/ (Root(n) \notin overwritten)' => \A i, j \in past'[n] : i = j
  BY DEF IdentityInv
<1> QED
  BY <1>1, <1>2, <1>3, <1>4 DEF IdentityInv

\* Calls and the channels between them and the nodes.
LEMMA Untouched ==
    ASSUME RuntimeInv, UNCHANGED <<lives, devnet, setting>>,
           \A n \in DevNode : routing[n] # "on" => routing'[n] # "on"
    PROVE  DevnetInv' /\ IdentityInv'
<1>1. DevnetInv'
  BY DevnetKept DEF RuntimeInv, lives
<1>2. IdentityInv'
  BY IdentityQuiet DEF RuntimeInv, lives, devnet
<1> QED
  BY <1>1, <1>2
-----------------------------------------------------------------------------
(* Processes *)

\* The steps of a process change no other node.
LEMMA ProcessLife ==
    ASSUME TypeOK, NEW n \in Solo, NEW l \in Life, life' = [life EXCEPT ![n] = l]
    PROVE  /\ life' \in [Node -> Life] /\ life'[n] = l
           /\ \A m \in Node : m # n => life'[m] = life[m]
           /\ \A m \in DevNode : life'[m] = life[m]
BY RootFacts DEF TypeOK

LEMMA BuildStep == ASSUME RuntimeInv, NEW n \in Solo, Build(n) PROVE RuntimeInv'
<1> USE RootFacts DEF RuntimeInv
<1>1. \/ /\ keys[Root(n)] = {}
         /\ life' = [life EXCEPT ![n] = "mint"] /\ ident' = ident
      \/ \E i \in keys[Root(n)] : /\ keys[Root(n)] = {i}
                                  /\ life' = [life EXCEPT ![n] = "load"]
                                  /\ ident' = [ident EXCEPT ![n] = i]
      \/ life' = life /\ ident' = ident
  BY DEF Build, Found
<1>2. life' \in [Node -> Life] /\ \A m \in DevNode : life'[m] = life[m]
  <2>1. CASE life' = life
    BY <2>1 DEF TypeOK
  <2>2. CASE \E l \in {"mint", "load"} : life' = [life EXCEPT ![n] = l]
    BY <2>2, ProcessLife DEF Life
  <2> QED
    BY <1>1, <2>1, <2>2
<1>3. ident' \in [Node -> Nat]
  <2>1. keys[Root(n)] \subseteq Nat
    BY DEF TypeOK
  <2> QED
    BY <1>1, <2>1 DEF TypeOK
<1>4. starts' \in Nat
  BY DEF Build, TypeOK
<1>5. TypeOK'
  BY <1>2, <1>3, <1>4 DEF Build, TypeOK, devnet, tasks, calls, setting
<1>6. DevnetInv'
  BY <1>2, DevnetKept DEF Build, tasks
<1>7. IdentityInv'
  <2> USE DEF Root, Explicit, setting
  <2>0. UNCHANGED <<keys, past, overwritten, root, phase>>
    BY DEF Build, devnet
  <2>1. SharedInv'
    <3>1. ASSUME NEW m \in Solo, life'[m] = "mint", keys[Root(m)] # {} PROVE life[m] = "mint"
      BY <3>1, <1>1 DEF TypeOK
    <3> QED
      BY <3>1, <2>0 DEF IdentityInv, SharedInv
  <2>2. ASSUME NEW m \in Solo, (Root(m) \notin overwritten)' PROVE OnDisk(m)'
    <3>0. OnDisk(m)
      BY <2>2, <2>0 DEF IdentityInv
    <3>1. CASE m = n
      BY <3>1, <3>0, <2>0, <1>1 DEF OnDisk, TypeOK
    <3>2. CASE m # n
      BY <3>2, <3>0, <2>0, <1>1 DEF OnDisk, TypeOK
    <3> QED
      BY <3>1, <3>2
  <2> QED
    BY <2>0, <2>1, <2>2, <1>2 DEF IdentityInv
<1> QED
  BY <1>5, <1>6, <1>7

LEMMA MintStep == ASSUME RuntimeInv, NEW n \in Solo, MintIdentity(n) PROVE RuntimeInv'
<1> USE RootFacts DEF RuntimeInv
<1>1. /\ minted' = minted + 1 /\ minted \in Nat
      /\ life' = [life EXCEPT ![n] = "identity"]
      /\ past' = [past EXCEPT ![n] = past[n] \cup {minted'}]
      /\ Root(n) \notin overwritten => past[n] = {}
      /\ overwritten \subseteq overwritten' /\ overwritten' \subseteq overwritten \cup {Root(n)}
      /\ overwritten' \subseteq Roots /\ UNCHANGED root
  BY DEF MintIdentity, TypeOK, IdentityInv, OnDisk, setting
<1>2. /\ \A r \in Roots : r # Root(n) => keys'[r] = keys[r]
      /\ minted' \in keys'[Root(n)] /\ keys'[Root(n)] \subseteq keys[Root(n)] \cup {minted'}
      /\ ~Explicit(n) => keys'[Root(n)] = keys[Root(n)] \cup {minted'}
      /\ Explicit(n) => keys'[Root(n)] = {minted'}
      /\ Explicit(n) /\ keys[Root(n)] # {} => Root(n) \in overwritten'
      /\ Root(n) \in overwritten' \ overwritten => Explicit(n) /\ keys[Root(n)] # {}
      /\ DOMAIN keys' = Roots /\ keys' = [r \in Roots |-> keys'[r]]
  BY DEF MintIdentity, TypeOK
<1>3. life' \in [Node -> Life] /\ \A m \in DevNode : life'[m] = life[m]
  BY <1>1 DEF TypeOK, Life
<1>4. keys' \in [Roots -> SUBSET (1 .. minted')]
  <2>1. \A r \in Roots : keys'[r] \subseteq 1 .. minted'
    <3>1. \A r \in Roots : keys[r] \subseteq 1 .. minted'
      BY <1>1 DEF TypeOK
    <3>2. minted' \in 1 .. minted'
      BY <1>1
    <3>3. ASSUME NEW r \in Roots PROVE keys'[r] \subseteq keys[r] \cup {minted'}
      BY <1>2
    <3> QED
      BY <3>1, <3>2, <3>3
  <2> QED
    BY <1>2, <2>1
<1>5. past' \in [Node -> SUBSET (1 .. minted')] /\ ident' \in [Node -> Nat] /\ minted' \in Nat
  BY <1>1 DEF TypeOK, MintIdentity
<1>6. TypeOK'
  BY <1>3, <1>4, <1>5 DEF MintIdentity, TypeOK, devnet, tasks, calls, setting
<1>7. DevnetInv'
  BY <1>3, DevnetKept DEF MintIdentity, tasks
<1>8. IdentityInv'
  <2>0. /\ \A m \in Node : m # n => life'[m] = life[m] /\ past'[m] = past[m] /\ ident'[m] = ident[m]
        /\ life'[n] = "identity" /\ past'[n] = past[n] \cup {minted'}
    BY <1>1 DEF TypeOK, MintIdentity
  <2>1. SharedInv'
    <3>1. "default" \notin overwritten'
      BY <1>1, <1>2 DEF IdentityInv, SharedInv
    <3>2. ASSUME NEW m \in Solo, Explicit(m), NEW i \in keys'[Root(m)], NEW j \in keys'[Root(m)]
          PROVE  i = j
      <4>1. CASE Root(m) = Root(n)
        <5>1. Explicit(n)
          BY <4>1, <3>2
        <5>2. keys'[Root(m)] = {minted'}
          BY <5>1, <4>1, <1>2
        <5> QED
          BY <5>2, <3>2
      <4>2. CASE Root(m) # Root(n)
        BY <4>2, <3>2, <1>2 DEF IdentityInv, SharedInv
      <4> QED
        BY <4>1, <4>2
    <3>3. ASSUME NEW m \in Solo,
                 \/ Root(m) \in overwritten'
                 \/ life'[m] = "mint" /\ Explicit(m) /\ keys'[Root(m)] # {}
          PROVE  \E q \in Solo \ {m} : Root(q) = Root(m)
      <4>1. CASE Root(m) \in overwritten
        BY <4>1 DEF IdentityInv, SharedInv
      <4>2. CASE m # n /\ Root(m) = Root(n)
        BY <4>2
      <4>3. CASE m # n /\ Root(m) # Root(n)
        BY <4>3, <3>3, <1>1, <1>2, <2>0 DEF IdentityInv, SharedInv
      <4>4. CASE m = n /\ Root(m) \notin overwritten
        <5>1. Explicit(n) /\ keys[Root(n)] # {} /\ life[n] = "mint"
          BY <4>4, <3>3, <1>2, <2>0 DEF MintIdentity
        <5> QED
          BY <4>4, <5>1 DEF IdentityInv, SharedInv
      <4> QED
        BY <4>1, <4>2, <4>3, <4>4
    <3> QED
      BY <3>1, <3>2, <3>3, <1>1 DEF SharedInv, Root, Explicit
  <2>2. ASSUME NEW m \in Solo, Root(m) \notin overwritten' PROVE OnDisk(m)'
    <3>0. OnDisk(m)
      BY <2>2, <1>1 DEF IdentityInv
    <3>1. CASE m = n
      <4>0. Root(n) \notin overwritten
        BY <3>1, <2>2, <1>1
      <4>1. past'[m] = {minted'} /\ minted' \in keys'[Root(m)] /\ life'[m] = "identity"
        BY <4>0, <3>1, <1>1, <1>2, <2>0
      <4> QED
        BY <4>1, <1>1 DEF OnDisk, Root
    <3>2. CASE m # n
      <4>1. life'[m] = life[m] /\ past'[m] = past[m] /\ ident'[m] = ident[m]
        BY <3>2, <2>0
      <4>2. keys[Root(m)] \subseteq keys'[Root(m)]
        <5>1. CASE Root(m) = Root(n) /\ Explicit(n)
          BY <5>1, <2>2, <1>2
        <5>2. CASE Root(m) = Root(n) /\ ~Explicit(n)
          BY <5>2, <1>2
        <5>3. CASE Root(m) # Root(n)
          BY <5>3, <1>2
        <5> QED
          BY <5>1, <5>2, <5>3
      <4>3. /\ past'[m] \subseteq keys'[Root(m)]
            /\ life'[m] = "mint" => past'[m] = {}
            /\ life'[m] = "load" => ident'[m] \in keys'[Root(m)] /\ past'[m] \subseteq {ident'[m]}
        BY <4>1, <4>2, <3>0 DEF OnDisk
      <4> QED
        BY <4>3, <1>1 DEF OnDisk, Root
    <3> QED
      BY <3>1, <3>2
  <2>3. \A m \in DevNode : past'[m] = past[m]
    BY <2>0
  <2>4. ASSUME NEW m \in Node, m \in DevNode \/ Root(m) \notin overwritten',
               NEW i \in past'[m], NEW j \in past'[m]
        PROVE  i = j
    <3>1. CASE m = n
      BY <3>1, <2>4, <1>1, <2>0
    <3>2. CASE m # n
      BY <3>2, <2>4, <1>1, <2>0 DEF IdentityInv
    <3> QED
      BY <3>1, <3>2
  <2> QED
    BY <2>1, <2>2, <2>3, <2>4, <1>1, <1>3 DEF IdentityInv, MintIdentity, devnet, Root
<1> QED
  BY <1>6, <1>7, <1>8

LEMMA LoadStep == ASSUME RuntimeInv, NEW n \in Solo, LoadIdentity(n) PROVE RuntimeInv'
<1> USE RootFacts DEF RuntimeInv
<1>0. PICK i \in keys[Root(n)] :
        /\ Explicit(n) \/ i = ident[n]
        /\ ident' = [ident EXCEPT ![n] = i] /\ past' = [past EXCEPT ![n] = past[n] \cup {i}]
  BY DEF LoadIdentity, TypeOK
<1>1. life' = [life EXCEPT ![n] = "identity"] /\ UNCHANGED <<keys, overwritten, root, phase>>
  BY DEF LoadIdentity, setting, devnet
<1>2. life' \in [Node -> Life] /\ \A m \in DevNode : life'[m] = life[m]
  BY <1>1 DEF TypeOK, Life
<1>3. past' \in [Node -> SUBSET (1 .. minted)] /\ ident' \in [Node -> Nat]
  <2>1. i \in 1 .. minted /\ i \in Nat
    BY <1>0 DEF TypeOK
  <2> QED
    BY <1>0, <2>1 DEF TypeOK
<1>4. TypeOK'
  BY <1>2, <1>3 DEF LoadIdentity, TypeOK, devnet, tasks, calls, setting
<1>5. DevnetInv'
  BY <1>2, DevnetKept DEF LoadIdentity, tasks
<1>6. IdentityInv'
  <2>0. /\ \A m \in Node : m # n => life'[m] = life[m] /\ past'[m] = past[m] /\ ident'[m] = ident[m]
        /\ life'[n] = "identity" /\ past'[n] = past[n] \cup {i}
    BY <1>0, <1>1 DEF TypeOK
  <2>1. Root(n) \notin overwritten => past'[n] = {i}
    <3>1. ASSUME Root(n) \notin overwritten PROVE past[n] \subseteq {i}
      <4>1. OnDisk(n) /\ life[n] = "load"
        BY <3>1 DEF IdentityInv, LoadIdentity
      <4>2. i = ident[n]
        BY <4>1, <1>0 DEF OnDisk, IdentityInv, SharedInv
      <4> QED
        BY <4>1, <4>2 DEF OnDisk
    <3> QED
      BY <3>1, <2>0
  <2>2. SharedInv'
    <3>1. \A m \in Solo : life'[m] = "mint" => life[m] = "mint"
      BY <2>0
    <3> QED
      BY <1>1, <3>1, SharedQuiet DEF IdentityInv, LoadIdentity
  <2>3. ASSUME NEW m \in Solo, Root(m) \notin overwritten PROVE OnDisk(m)'
    <3>1. CASE m = n
      <4>1. past'[m] \subseteq keys'[Root(m)] /\ life'[m] = "identity"
        BY <3>1, <2>3, <2>1, <2>0, <1>0, <1>1
      <4> QED
        BY <4>1, <1>1 DEF OnDisk, Root
    <3>2. CASE m # n
      BY <3>2, <2>3, <2>0, <1>1 DEF OnDisk, Root, IdentityInv
    <3> QED
      BY <3>1, <3>2
  <2>4. ASSUME NEW m \in Node, m \in DevNode \/ Root(m) \notin overwritten,
               NEW a \in past'[m], NEW b \in past'[m]
        PROVE  a = b
    BY <2>4, <2>0, <2>1 DEF IdentityInv
  <2> QED
    BY <2>0, <2>2, <2>3, <2>4, <1>1, <1>2 DEF IdentityInv, Root
<1> QED
  BY <1>4, <1>5, <1>6

\* The other steps of a process: to a state from which it has no identity to
\* take, with its routing task changed or not.
LEMMA ProcessStep ==
    ASSUME RuntimeInv, NEW n \in Solo,
           NEW l \in Life \ {"mint", "load"}, life' = [life EXCEPT ![n] = l],
           ident' = ident \/ ident' = [ident EXCEPT ![n] = 0],
           UNCHANGED <<starts, keys, minted, past, overwritten, devnet, calls, noise, setting>>,
           routing' \in [Node -> Task \cup {"ended"}],
           \A m \in Node : m # n => routing'[m] = routing[m],
           buf' \in [Node -> Seq(Req \cup {Other})], \A m \in Node : Len(buf'[m]) <= Cap,
           lag' \in [Node -> BOOLEAN],
           waiting' \in [Node -> SUBSET Req], busy' \in [Node -> SUBSET Req]
    PROVE  RuntimeInv'
<1> USE RootFacts DEF RuntimeInv
<1>1. /\ life' \in [Node -> Life] /\ life'[n] = l
      /\ \A m \in Node : m # n => life'[m] = life[m]
      /\ \A m \in DevNode : life'[m] = life[m]
  BY ProcessLife
<1>2. ident' \in [Node -> Nat] /\ \A m \in Node : m # n => ident'[m] = ident[m]
  <2>1. CASE ident' = ident
    BY <2>1 DEF TypeOK
  <2>2. CASE ident' = [ident EXCEPT ![n] = 0]
    BY <2>2 DEF TypeOK
  <2> QED
    BY <2>1, <2>2
<1>3. TypeOK'
  BY <1>1, <1>2 DEF TypeOK, devnet, calls, setting
<1>4. DevnetInv'
  BY <1>1, DevnetKept
<1>5. IdentityInv'
  BY <1>1, <1>2, IdentityQuiet DEF devnet
<1> QED
  BY <1>3, <1>4, <1>5

LEMMA TaskTypes ==
    ASSUME TypeOK
    PROVE  /\ routing \in [Node -> Task \cup {"ended"}]
           /\ buf \in [Node -> Seq(Req \cup {Other})] /\ \A m \in Node : Len(buf[m]) <= Cap
           /\ lag \in [Node -> BOOLEAN]
           /\ waiting \in [Node -> SUBSET Req] /\ busy \in [Node -> SUBSET Req]
BY DEF TypeOK

\* Subscribing and aborting keep the tasks typed.
LEMMA SubscribeTyped ==
    ASSUME TypeOK, NEW n \in Node, Subscribe(n)
    PROVE  /\ routing' \in [Node -> Task \cup {"ended"}]
           /\ \A m \in Node : m # n => routing'[m] = routing[m]
           /\ buf' \in [Node -> Seq(Req \cup {Other})] /\ \A m \in Node : Len(buf'[m]) <= Cap
           /\ lag' \in [Node -> BOOLEAN]
           /\ waiting' \in [Node -> SUBSET Req] /\ busy' \in [Node -> SUBSET Req]
<1>1. <<>> \in Seq(Req \cup {Other}) /\ Len(<<>>) <= Cap
  BY BoundAssumption
<1> QED
  BY <1>1 DEF TypeOK, Subscribe, Task

LEMMA AbortedTyped ==
    ASSUME TypeOK, NEW S \in SUBSET Node, Aborted(S)
    PROVE  /\ routing' \in [Node -> Task \cup {"ended"}]
           /\ \A m \in Node : m \notin S => routing'[m] = routing[m]
           /\ \A m \in S : routing'[m] # "on"
<1>1. \A t \in Task \cup {"ended"} : Told(t) \in Task \cup {"ended"} /\ Told(t) # "on"
  BY DEF Told, Task
<1> QED
  BY <1>1 DEF TypeOK, Aborted

LEMMA NoTaskTyped ==
    ASSUME TypeOK, NEW n \in Node, NoTask(n)
    PROVE  /\ routing' \in [Node -> Task \cup {"ended"}]
           /\ routing'[n] = "none" /\ \A m \in Node : m # n => routing'[m] = routing[m]
           /\ buf' \in [Node -> Seq(Req \cup {Other})] /\ \A m \in Node : Len(buf'[m]) <= Cap
           /\ lag' \in [Node -> BOOLEAN]
<1>1. <<>> \in Seq(Req \cup {Other}) /\ Len(<<>>) <= Cap
  BY BoundAssumption
<1>2. lag' \in [Node -> BOOLEAN]
  BY DEF NoTask, TypeOK
<1> QED
  BY <1>1, <1>2 DEF TypeOK, NoTask, Task
-----------------------------------------------------------------------------
(* The devnet *)

\* The steps that change the phase, the monitor, the listener or the chain
\* only.
LEMMA HelperStep ==
    ASSUME RuntimeInv, StartChain \/ ServeWebTransport \/ Stabilize \/ MonitorEnds \/ ListenerEnds
    PROVE  RuntimeInv'
<1> USE RootFacts DEF RuntimeInv, StartChain, ServeWebTransport, Stabilize, MonitorEnds, ListenerEnds
<1>0. ASSUME phase' \in Starting PROVE \E k \in 0 .. Len(Dev) - 1 : Prefix(k)'
  <2>1. PICK k \in 0 .. Len(Dev) - 1 : Prefix(k)
    BY <1>0 DEF DevnetInv, Starting
  <2> QED
    BY <2>1 DEF Prefix, lives
<1>1. TypeOK'
  BY DEF TypeOK, Phase, Task, lives, tasks, calls, setting
<1>2. DevnetInv'
  <2>1. UNCHANGED <<life, routing, world>>
    BY DEF lives, tasks, setting
  <2>2. CASE StartChain \/ ServeWebTransport
    BY <1>0, <2>1, <2>2 DEF DevnetInv, Starting
  <2>3. CASE Stabilize
    BY <1>0, <2>1, <2>3 DEF DevnetInv, Starting
  <2>4. CASE MonitorEnds \/ ListenerEnds
    BY <1>0, <2>1, <2>4 DEF DevnetInv, Starting
  <2> QED
    BY <2>2, <2>3, <2>4
<1>3. IdentityInv'
  BY IdentityQuiet DEF lives, Early, Starting
<1> QED
  BY <1>1, <1>2, <1>3

LEMMA DropStep ==
    ASSUME RuntimeInv, DevnetDrop \/ LocalDrop
    PROVE  RuntimeInv'
<1> USE RootFacts DEF RuntimeInv
<1>0. /\ phase \in {"ready", "failed", "stopped"} /\ phase' \in {"dropped", phase}
      /\ phase' = phase => phase = "stopped"
      /\ life' = life /\ routing' = routing /\ (wt' = "on" => wt = "on") /\ monitor' # "on"
      /\ wt' \in Task /\ monitor' \in Task /\ chain' \in BOOLEAN
  BY DEF DevnetDrop, LocalDrop, lives, tasks, Told, Task, TypeOK
<1>1. TypeOK'
  BY <1>0 DEF DevnetDrop, LocalDrop, TypeOK, Phase, lives, tasks, calls, setting
<1>2. DevnetInv'
  BY <1>0 DEF DevnetInv, Starting
<1>3. IdentityInv'
  BY <1>0, IdentityQuiet DEF DevnetDrop, LocalDrop, lives, Early, Starting
<1> QED
  BY <1>1, <1>2, <1>3

LEMMA DevnetStartStep ==
    ASSUME RuntimeInv, MainStart \/ LocalStart
    PROVE  RuntimeInv'
<1> USE RootFacts DEF RuntimeInv
<1>0. /\ phase = "uninitialized" /\ phase' = "bootstrapping" /\ (world = "local" => chain)
      /\ UNCHANGED <<lives, monitor, wt, chain, tasks, calls, noise, setting>>
  BY DEF MainStart, LocalStart, DevnetStart
<1>1. TypeOK'
  BY <1>0 DEF TypeOK, Phase, lives, tasks, calls, setting
<1>2. DevnetInv'
  <2>1. Prefix(0)' /\ 0 \in 0 .. Len(Dev) - 1
    BY <1>0, DevFacts DEF DevnetInv, Prefix, lives
  <2> QED
    BY <1>0, <2>1 DEF DevnetInv, Starting, lives, tasks, setting
<1>3. IdentityInv'
  BY <1>0, IdentityQuiet DEF lives, Early, Starting
<1> QED
  BY <1>1, <1>2, <1>3

\* The node that comes next is the one after the nodes that run.
LEMMA NextIsAfter ==
    ASSUME RuntimeInv, phase \in Starting
    PROVE  \E k \in 0 .. Len(Dev) - 1 : Prefix(k) /\ NextNode = k + 1
<1>1. PICK k \in 0 .. Len(Dev) - 1 : Prefix(k)
  BY DEF RuntimeInv, DevnetInv
<1>2. {i \in DOMAIN Dev : life[Dev[i]] = "running"} = 1 .. k
  BY <1>1, DevFacts DEF Prefix
<1>3. Cardinality(1 .. k) = k
  BY FS_Interval, DevFacts
<1> QED
  BY <1>1, <1>2, <1>3 DEF NextNode

LEMMA CreateNodeStep == ASSUME RuntimeInv, CreateNode PROVE RuntimeInv'
<1> USE RootFacts DEF RuntimeInv
<1>0. phase \in Starting
  BY DEF CreateNode, Starting
<1>1. PICK k \in 0 .. Len(Dev) - 1 : Prefix(k) /\ NextNode = k + 1
  BY <1>0, NextIsAfter
<1> DEFINE n == Dev[k + 1]
<1>2. n \in DevNode /\ k + 1 \in 1 .. Len(Dev)
  BY DevFacts
<1>3. /\ life[n] = "down" /\ life' = [life EXCEPT ![n] = "identity"]
      /\ minted' = minted + 1 /\ minted \in Nat
      /\ keys' = [keys EXCEPT ![n] = {minted'}]
      /\ UNCHANGED <<starts, ident, past, overwritten, devnet, tasks, calls, noise, setting>>
  BY <1>1 DEF CreateNode, TypeOK
<1> HIDE DEF n
<1>4. keys' \in [Roots -> SUBSET (1 .. minted')]
  <2>1. \A r \in Roots : keys[r] \subseteq 1 .. minted'
    BY <1>3 DEF TypeOK
  <2>2. {minted'} \subseteq 1 .. minted'
    BY <1>3
  <2> QED
    BY <2>1, <2>2, <1>2, <1>3 DEF TypeOK
<1>5. past' \in [Node -> SUBSET (1 .. minted')]
  <2>1. \A m \in Node : past[m] \subseteq 1 .. minted'
    BY <1>3 DEF TypeOK
  <2> QED
    BY <2>1, <1>3 DEF TypeOK
<1>6. life' \in [Node -> Life]
  BY <1>2, <1>3 DEF TypeOK, Life
<1>7. TypeOK'
  BY <1>3, <1>4, <1>5, <1>6 DEF TypeOK, devnet, tasks, calls, setting
<1>8. DevnetInv'
  <2>1. Prefix(k)'
    BY <1>1, <1>2, <1>3 DEF Prefix, TypeOK
  <2> QED
    BY <1>0, <1>2, <1>3, <2>1 DEF DevnetInv, Starting, devnet, tasks, TypeOK, setting
<1>9. IdentityInv'
  <2>1. \A m \in Solo : keys'[Root(m)] = keys[Root(m)] /\ life'[m] = life[m]
    BY <1>2, <1>3 DEF TypeOK
  <2>2. \A m \in DevNode : life'[m] # "running" => life[m] # "running"
    BY <1>3 DEF TypeOK
  <2> QED
    BY <2>1, <2>2, <1>3, IdentityQuiet DEF devnet
<1> QED
  BY <1>7, <1>8, <1>9

LEMMA StartNodeStep == ASSUME RuntimeInv, StartNode PROVE RuntimeInv'
<1> USE RootFacts DEF RuntimeInv
<1>0. phase \in Starting
  BY DEF StartNode, Starting
<1>1. PICK k \in 0 .. Len(Dev) - 1 : Prefix(k) /\ NextNode = k + 1
  BY <1>0, NextIsAfter
<1> DEFINE n == Dev[k + 1]
<1>2. n \in DevNode /\ k + 1 \in 1 .. Len(Dev)
  BY DevFacts
<1>3. /\ life[n] = "identity" /\ life' = [life EXCEPT ![n] = "running"]
      /\ Subscribe(n) /\ phase' = PhaseAfter(k + 1)
      /\ UNCHANGED <<starts, keys, minted, overwritten, monitor, wt, chain, calls, noise, setting>>
  BY <1>1 DEF StartNode
<1>4. PICK i \in keys[n] :
        ident' = [ident EXCEPT ![n] = i] /\ past' = [past EXCEPT ![n] = @ \cup {i}]
  BY <1>1 DEF StartNode
<1>5. past[n] = {}
  BY <1>0, <1>2, <1>3 DEF IdentityInv, Early
<1>6. /\ k + 1 < Len(Dev) => phase' \in Starting
      /\ k + 1 = Len(Dev) => phase' = "stabilizing"
  BY <1>0, <1>3, DevFacts DEF PhaseAfter, Starting
<1>7. i \in 1 .. minted /\ i \in Nat
  BY <1>2, <1>4 DEF TypeOK
<1>8. \A j \in 1 .. Len(Dev) : Dev[j] = n => j = k + 1
  BY <1>2, DevFacts
<1> HIDE DEF n
<1>9. /\ life' \in [Node -> Life] /\ ident' \in [Node -> Nat]
      /\ past' = [past EXCEPT ![n] = {i}] /\ past' \in [Node -> SUBSET (1 .. minted)]
  BY <1>2, <1>3, <1>4, <1>5, <1>7 DEF TypeOK, Life
<1>10. /\ routing' \in [Node -> Task \cup {"ended"}]
       /\ buf' \in [Node -> Seq(Req \cup {Other})] /\ \A m \in Node : Len(buf'[m]) <= Cap
       /\ lag' \in [Node -> BOOLEAN]
       /\ waiting' \in [Node -> SUBSET Req] /\ busy' \in [Node -> SUBSET Req]
  BY <1>2, <1>3, SubscribeTyped
<1>11. phase' \in Phase /\ phase' \in Starting \cup {"stabilizing"}
  <2>1. \A a, b \in Int : a <= b => a < b \/ a = b
    OBVIOUS
  <2>2. k + 1 \in Int /\ Len(Dev) \in Int /\ k + 1 <= Len(Dev)
    BY <1>2, DevFacts
  <2>3. phase' \in Starting \/ phase' = "stabilizing"
    BY <2>1, <2>2, <1>6, Zenon
  <2> QED
    BY <2>3 DEF Phase, Starting
<1>12. TypeOK'
  BY <1>3, <1>9, <1>10, <1>11 DEF TypeOK, calls, setting
<1>13. \A j \in 1 .. Len(Dev) : life'[Dev[j]] = "running" <=> j <= k + 1
  <2>1. ASSUME NEW j \in 1 .. Len(Dev) PROVE life'[Dev[j]] = "running" <=> j <= k + 1
    <3>1. Dev[j] \in Node /\ (life[Dev[j]] = "running" <=> j <= k)
      BY <1>1, DevFacts DEF Prefix
    <3>2. CASE j = k + 1
      <4>1. Dev[j] = n
        BY <3>2 DEF n
      <4> QED
        BY <4>1, <3>1, <3>2, <1>3 DEF TypeOK
    <3>3. CASE j # k + 1
      <4>1. life'[Dev[j]] = life[Dev[j]]
        BY <1>8, <3>3, <3>1, <1>3 DEF TypeOK
      <4> QED
        BY <4>1, <3>1, <3>3
    <3> QED
      BY <3>2, <3>3
  <2> QED
    BY <2>1
<1>14. DevnetInv'
  <2>1. phase' \in Starting => k + 1 \in 0 .. Len(Dev) - 1
    BY <1>6, <1>2 DEF Starting
  <2>2. phase' \in Starting => \E q \in 0 .. Len(Dev) - 1 : Prefix(q)'
    BY <2>1, <1>13, DevFacts DEF Prefix
  <2>3. phase' = "stabilizing" => \A m \in DevNode : life'[m] = "running"
    BY <1>6, <1>13, DevFacts DEF Starting
  <2>4. \A m \in DevNode : /\ life'[m] \in {"down", "identity", "running", "stopping"}
                           /\ life'[m] = "identity" => m # n /\ life[m] = "identity"
                           /\ life'[m] # "stopping"
    BY <1>0, <1>3 DEF DevnetInv, TypeOK, Starting
  <2>5. phase' = "stabilizing" => \A m \in DevNode : life'[m] # "identity"
    BY <2>3
  <2> QED
    BY <1>0, <1>3, <1>11, <2>2, <2>3, <2>4, <2>5 DEF DevnetInv, Starting, setting
<1>15. IdentityInv'
  <2>1. \A m \in Node : m # n => life'[m] = life[m] /\ past'[m] = past[m] /\ ident'[m] = ident[m]
    BY <1>3, <1>4, <1>9 DEF TypeOK
  <2>2. \A m \in Solo : m # n
    BY <1>2
  <2>3. life'[n] = "running" /\ past'[n] = {i}
    BY <1>2, <1>3, <1>9 DEF TypeOK
  <2>4. ASSUME NEW m \in Node, m \in DevNode \/ Root(m) \notin overwritten,
               NEW a \in past'[m], NEW b \in past'[m]
        PROVE  a = b
    BY <2>1, <2>3, <2>4 DEF IdentityInv
  <2>5. \A m \in DevNode : life'[m] # "running" => past'[m] = {}
    BY <2>1, <2>3, <1>0 DEF IdentityInv, Early
  <2>6. SharedInv'
    BY <2>1, <2>2, <1>3, SharedQuiet DEF IdentityInv
  <2>7. ASSUME NEW m \in Solo, Root(m) \notin overwritten PROVE OnDisk(m)'
    BY <2>1, <2>2, <2>7, <1>3 DEF IdentityInv, OnDisk, Root, setting
  <2> QED
    BY <2>4, <2>5, <2>6, <2>7, <1>3 DEF IdentityInv, Root, setting
<1> QED
  BY <1>12, <1>14, <1>15

LEMMA StartFailsStep == ASSUME RuntimeInv, DevnetStartFails PROVE RuntimeInv'
<1> USE RootFacts DEF RuntimeInv
<1>1. TypeOK'
  BY DEF DevnetStartFails, TypeOK, Phase, Life, tasks, calls, setting
<1>2. DevnetInv'
  BY DEF DevnetStartFails, DevnetInv, Starting, tasks, setting
<1>3. IdentityInv'
  <2>1. \A n \in Solo : /\ life'[n] = "mint" => life[n] = "mint"
                        /\ life'[n] = "load" => life[n] = "load" /\ ident'[n] = ident[n]
    BY DEF DevnetStartFails
  <2>2. phase' \notin Early /\ UNCHANGED <<keys, past, overwritten, setting>>
    BY DEF DevnetStartFails, Early, Starting
  <2> QED
    BY <2>1, <2>2, IdentityQuiet
<1> QED
  BY <1>1, <1>2, <1>3

LEMMA ShutdownStep ==
    ASSUME RuntimeInv, ShutdownCalled \/ LocalShutdown
    PROVE  RuntimeInv'
<1> USE RootFacts DEF RuntimeInv
<1>0. DevnetShutdown /\ phase \in {"ready", "failed"}
  BY DEF ShutdownCalled, LocalShutdown
<1>1. DevNode \in SUBSET Node /\ Aborted(DevNode)
  BY <1>0 DEF DevnetShutdown
<1>2. TypeOK'
  <2>1. monitor' \in Task /\ wt' \in Task
    BY <1>0 DEF DevnetShutdown, TypeOK, Told, Task
  <2> QED
    BY <1>0, <1>1, <2>1, AbortedTyped DEF DevnetShutdown, TypeOK, Phase, Life, calls, setting
<1>3. DevnetInv'
  <2>1. \A n \in DevNode : routing'[n] # "on"
    BY <1>1, AbortedTyped
  <2>3. monitor' # "on" /\ wt' # "on"
    BY <1>0 DEF DevnetShutdown, Told
  <2>2. \A n \in DevNode : life'[n] \in {"down", "stopping"}
    BY <1>0 DEF DevnetShutdown, DevnetInv, Starting
  <2> QED
    BY <1>0, <2>1, <2>2, <2>3 DEF DevnetShutdown, DevnetInv, Starting, setting
<1>4. IdentityInv'
  <2>1. \A n \in Solo : life'[n] = life[n]
    BY <1>0 DEF DevnetShutdown
  <2>2. phase' \notin Early /\ UNCHANGED <<keys, past, ident, overwritten, setting>>
    BY <1>0 DEF DevnetShutdown, Early, Starting
  <2> QED
    BY <2>1, <2>2, IdentityQuiet
<1> QED
  BY <1>2, <1>3, <1>4

LEMMA StoppedStep == ASSUME RuntimeInv, DevnetStopped PROVE RuntimeInv'
<1> USE RootFacts DEF RuntimeInv
<1>1. TypeOK'
  BY DEF DevnetStopped, TypeOK, Phase, tasks, calls, setting
<1>2. DevnetInv'
  BY DEF DevnetStopped, DevnetInv, Starting, tasks, setting
<1>3. IdentityInv'
  <2>1. \A n \in Solo : keys'[Root(n)] = keys[Root(n)]
    BY DEF DevnetStopped
  <2> QED
    BY <2>1, IdentityQuiet DEF DevnetStopped, Early, Starting
<1> QED
  BY <1>1, <1>2, <1>3

\* The end of a node that was shut down.
LEMMA ExitStep == ASSUME RuntimeInv, NEW n \in Node, Exit(n) PROVE RuntimeInv'
<1> USE RootFacts DEF RuntimeInv
<1>1. /\ life[n] = "stopping" /\ life' = [life EXCEPT ![n] = "down"]
      /\ ident' = [ident EXCEPT ![n] = 0]
      /\ UNCHANGED <<starts, keys, minted, past, overwritten, devnet, calls, noise, setting>>
  BY DEF Exit
<1>2. /\ life' \in [Node -> Life] /\ ident' \in [Node -> Nat]
      /\ life'[n] = "down" /\ \A m \in Node : m # n => life'[m] = life[m] /\ ident'[m] = ident[m]
  BY <1>1 DEF TypeOK, Life
<1>3. /\ waiting' \in [Node -> SUBSET Req] /\ busy' \in [Node -> SUBSET Req]
      /\ routing' \in [Node -> Task \cup {"ended"}]
      /\ \A m \in DevNode : routing'[m] = routing[m]
      /\ buf' \in [Node -> Seq(Req \cup {Other})] /\ \A m \in Node : Len(buf'[m]) <= Cap
      /\ lag' \in [Node -> BOOLEAN]
  <2>1. waiting' \in [Node -> SUBSET Req] /\ busy' \in [Node -> SUBSET Req]
    BY DEF Exit, TypeOK
  <2>2. CASE n \in Solo
    <3>1. NoTask(n)
      BY <2>2 DEF Exit
    <3> QED
      BY <2>1, <2>2, <3>1, NoTaskTyped
  <2>3. CASE n \notin Solo
    <3>1. UNCHANGED <<routing, buf, lag>>
      BY <2>3 DEF Exit
    <3> QED
      BY <2>1, <3>1, TaskTypes
  <2> QED
    BY <2>2, <2>3
<1>4. TypeOK'
  BY <1>1, <1>2, <1>3 DEF TypeOK, devnet, calls, setting
<1>5. n \in DevNode => phase = "shutting"
  BY <1>1 DEF DevnetInv
<1>6. DevnetInv'
  <2>1. CASE n \in DevNode
    BY <2>1, <1>1, <1>2, <1>3, <1>5 DEF DevnetInv, devnet, Starting, setting
  <2>2. CASE n \notin DevNode
    <3>1. \A m \in DevNode : life'[m] = life[m] /\ routing'[m] = routing[m]
      BY <2>2, <1>2, <1>3
    <3> QED
      BY <3>1, <1>1, DevnetKept
  <2> QED
    BY <2>1, <2>2
<1>7. IdentityInv'
  <2>1. \A m \in Solo : /\ life'[m] = "mint" => life[m] = "mint"
                        /\ life'[m] = "load" => life[m] = "load" /\ ident'[m] = ident[m]
    BY <1>2
  <2>2. \A m \in DevNode : phase' \in Early /\ life'[m] # "running" =>
                             phase \in Early /\ life[m] # "running"
    BY <1>1, <1>2 DEF devnet
  <2> QED
    BY <1>1, <2>1, <2>2, IdentityQuiet
<1> QED
  BY <1>4, <1>6, <1>7
-----------------------------------------------------------------------------
(* Routing and calls *)

CallRec == [st : {"idle", "waiting", "done", "error", "timeout"},
            peer : Node \cup {Other}, got : Req \cup {Other}]

\* The events kept for the routing task stay within the capacity of the
\* channel.
LEMMA ArrivesTyped ==
    ASSUME TypeOK, NEW n, NEW e \in Req \cup {Other}, Arrives(n, e)
    PROVE  /\ buf' \in [Node -> Seq(Req \cup {Other})] /\ \A m \in Node : Len(buf'[m]) <= Cap
           /\ lag' \in [Node -> BOOLEAN]
<1>1. lag' \in [Node -> BOOLEAN]
  BY DEF Arrives, TypeOK
<1> DEFINE kept == IF Len(buf[n]) = Cap THEN Tail(buf[n]) ELSE buf[n]
<1>2. buf' = buf \/ buf' = [buf EXCEPT ![n] = Append(kept, e)]
  BY DEF Arrives, TypeOK
<1>3. CASE buf' = buf \/ n \notin Node
  <2>1. buf' = buf
    BY <1>2, <1>3 DEF TypeOK
  <2> QED
    BY <1>1, <2>1 DEF TypeOK
<1>4. CASE n \in Node /\ buf' = [buf EXCEPT ![n] = Append(kept, e)]
  <2>1. buf[n] \in Seq(Req \cup {Other}) /\ Len(buf[n]) \in 0 .. Cap /\ Cap > 0
    BY <1>4, BoundAssumption DEF TypeOK
  <2>2. kept \in Seq(Req \cup {Other}) /\ Len(kept) < Cap
    <3>1. CASE Len(buf[n]) = Cap
      BY <2>1, <3>1, BoundAssumption
    <3>2. CASE Len(buf[n]) # Cap
      BY <2>1, <3>2, BoundAssumption
    <3> QED
      BY <3>1, <3>2
  <2> HIDE DEF kept
  <2>3. Append(kept, e) \in Seq(Req \cup {Other}) /\ Len(Append(kept, e)) <= Cap
    BY <2>2, BoundAssumption
  <2> QED
    BY <1>1, <1>4, <2>3 DEF TypeOK
<1> QED
  BY <1>2, <1>3, <1>4

LEMMA RouteTyped ==
    ASSUME RuntimeInv, NEW n \in Node,
           OtherArrives(n) \/ Route(n) \/ RouteLagged(n) \/ RoutingEnds(n)
    PROVE  RuntimeInv'
<1> USE DEF RuntimeInv
<1>1. CASE OtherArrives(n)
  <2>1. TypeOK'
    BY <1>1, ArrivesTyped, BoundAssumption DEF OtherArrives, TypeOK, lives, devnet, calls, setting
  <2> QED
    BY <1>1, <2>1, Untouched DEF OtherArrives
<1>2. CASE Route(n)
  <2>1. buf[n] \in Seq(Req \cup {Other}) /\ buf[n] # <<>> /\ Len(buf[n]) <= Cap
    BY <1>2 DEF Route, TypeOK
  <2>2. Tail(buf[n]) \in Seq(Req \cup {Other}) /\ Len(Tail(buf[n])) <= Cap
    BY <2>1, BoundAssumption
  <2>3. buf' \in [Node -> Seq(Req \cup {Other})] /\ \A m \in Node : Len(buf'[m]) <= Cap
    BY <1>2, <2>2 DEF Route, TypeOK
  <2>4. waiting' \in [Node -> SUBSET Req]
    BY <1>2 DEF Route, TypeOK
  <2>5. TypeOK'
    BY <1>2, <2>3, <2>4 DEF Route, TypeOK, lives, devnet, calls, setting
  <2> QED
    BY <1>2, <2>5, Untouched DEF Route
<1>3. CASE RouteLagged(n)
  <2>1. <<>> \in Seq(Req \cup {Other}) /\ Len(<<>>) <= Cap
    BY BoundAssumption
  <2>2. TypeOK'
    BY <1>3, <2>1 DEF RouteLagged, TypeOK, Task, lives, devnet, calls, setting
  <2>3. \A m \in DevNode : routing[m] # "on" => routing'[m] # "on"
    BY <1>3 DEF RouteLagged, TypeOK, Node
  <2> QED
    BY <1>3, <2>2, <2>3, Untouched DEF RouteLagged
<1>4. CASE RoutingEnds(n)
  <2>1. NoTask(n)
    BY <1>4 DEF RoutingEnds
  <2>2. TypeOK'
    BY <1>4, <2>1, NoTaskTyped DEF RoutingEnds, TypeOK, lives, devnet, calls, setting
  <2>3. \A m \in DevNode : routing[m] # "on" => routing'[m] # "on"
    BY <2>1, NoTaskTyped DEF Node
  <2> QED
    BY <1>4, <2>2, <2>3, Untouched DEF RoutingEnds
<1> QED
  BY <1>1, <1>2, <1>3, <1>4

LEMMA HandlerStep ==
    ASSUME RuntimeInv, NEW n \in Node, NEW r \in Req, Acquire(n, r) \/ Handle(n, r)
    PROVE  RuntimeInv'
<1> USE DEF RuntimeInv
<1>1. waiting' \in [Node -> SUBSET Req] /\ busy' \in [Node -> SUBSET Req] /\ wire' \subseteq Req
  <2>1. CASE Acquire(n, r)
    BY <2>1 DEF Acquire, TypeOK, calls
  <2>2. CASE Handle(n, r)
    BY <2>2 DEF Handle, TypeOK
  <2> QED
    BY <2>1, <2>2
<1>2. TypeOK'
  BY <1>1 DEF Acquire, Handle, TypeOK, lives, devnet, calls, setting
<1> QED
  BY <1>2, Untouched DEF Acquire, Handle

LEMMA CallStep ==
    ASSUME RuntimeInv, NEW r \in Req,
           Call(r) \/ RequestArrives(r) \/ AnswerArrives(r) \/ Timeout(r)
    PROVE  RuntimeInv' /\ (OwnAnswer => OwnAnswer')
<1> USE DEF RuntimeInv
<1>0. call \in [Req -> CallRec] /\ call[r] \in CallRec
  BY DEF TypeOK, CallRec
<1>1. CASE Call(r)
  <2>1. PICK n \in Asked, st \in {"waiting", "error"} :
          call' = [call EXCEPT ![r] = [call[r] EXCEPT !.st = st, !.peer = n]]
    BY <1>1, <1>0 DEF Call, CallRec
  <2>2. [call[r] EXCEPT !.st = st, !.peer = n] \in CallRec
    BY <1>0, CallAssumption DEF CallRec
  <2>3. call' \in [Req -> CallRec]
    BY <1>0, <2>1, <2>2
  <2>4. TypeOK'
    BY <1>1, <2>3 DEF Call, TypeOK, CallRec, lives, devnet, tasks, setting
  <2>5. OwnAnswer => OwnAnswer'
    BY <1>0, <2>1, <2>2 DEF OwnAnswer, CallRec
  <2> QED
    BY <1>1, <2>4, <2>5, Untouched DEF Call, tasks
<1>2. CASE RequestArrives(r)
  <2>1. TypeOK'
    BY <1>2, ArrivesTyped DEF RequestArrives, TypeOK, lives, devnet, setting
  <2> QED
    BY <1>2, <2>1, Untouched DEF RequestArrives, OwnAnswer
<1>3. CASE AnswerArrives(r)
  <2>1. \A c \in Req : \/ call'[c] = call[c]
                       \/ c = r /\ call'[c] = [call[c] EXCEPT !.st = "done", !.got = r]
    BY <1>3, <1>0 DEF AnswerArrives, Takes
  <2>2. \A c \in Req : [call[c] EXCEPT !.st = "done", !.got = r] \in CallRec
    BY <1>0 DEF CallRec
  <2>3. call' \in [Req -> CallRec]
    <3>1. DOMAIN call' = Req /\ call' = [c \in Req |-> call'[c]]
      BY <1>3, <1>0 DEF AnswerArrives
    <3> QED
      BY <3>1, <2>1, <2>2, <1>0
  <2>4. TypeOK'
    BY <1>3, <2>3 DEF AnswerArrives, TypeOK, CallRec, lives, devnet, tasks, setting
  <2>5. OwnAnswer => OwnAnswer'
    BY <2>1, <1>0 DEF OwnAnswer, CallRec
  <2> QED
    BY <1>3, <2>4, <2>5, Untouched DEF AnswerArrives, tasks
<1>4. CASE Timeout(r)
  <2>1. call' = [call EXCEPT ![r] = [call[r] EXCEPT !.st = "timeout"]]
    BY <1>4, <1>0 DEF Timeout, CallRec
  <2>2. [call[r] EXCEPT !.st = "timeout"] \in CallRec
    BY <1>0 DEF CallRec
  <2>3. call' \in [Req -> CallRec]
    BY <1>0, <2>1, <2>2
  <2>4. TypeOK'
    BY <1>4, <2>3 DEF Timeout, TypeOK, CallRec, lives, devnet, tasks, setting
  <2>5. OwnAnswer => OwnAnswer'
    BY <1>0, <2>1 DEF OwnAnswer, CallRec
  <2> QED
    BY <1>4, <2>4, <2>5, Untouched DEF Timeout, tasks
<1> QED
  BY <1>1, <1>2, <1>3, <1>4
-----------------------------------------------------------------------------
(* The theorems *)

LEMMA SoloStep ==
    ASSUME RuntimeInv, NEW n \in Solo,
           \/ CreateP2p(n) \/ CreateProtocol(n) \/ StartupFails(n)
           \/ Run(n) \/ Shutdown(n)
    PROVE  RuntimeInv'
<1> USE DEF RuntimeInv
<1>0. n \in Node /\ {n} \in SUBSET Node /\ Life \ {"mint", "load"} =
        {"down", "identity", "p2p", "built", "running", "stopping"}
  BY RootFacts DEF Life
<1>1. CASE CreateP2p(n)
  BY <1>0, <1>1, TaskTypes, ProcessStep DEF CreateP2p, tasks
<1>2. CASE CreateProtocol(n)
  BY <1>0, <1>2, TaskTypes, ProcessStep DEF CreateProtocol, tasks
<1>3. CASE StartupFails(n)
  BY <1>0, <1>3, TaskTypes, ProcessStep DEF StartupFails, tasks
<1>4. CASE Run(n)
  BY <1>0, <1>4, SubscribeTyped, ProcessStep DEF Run
<1>5. CASE Shutdown(n)
  <2>1. routing' \in [Node -> Task \cup {"ended"}] /\ \A m \in Node : m # n => routing'[m] = routing[m]
    BY <1>0, <1>5, AbortedTyped DEF Shutdown
  <2>2. /\ buf' \in [Node -> Seq(Req \cup {Other})] /\ \A m \in Node : Len(buf'[m]) <= Cap
        /\ lag' \in [Node -> BOOLEAN]
        /\ waiting' \in [Node -> SUBSET Req] /\ busy' \in [Node -> SUBSET Req]
    BY <1>5, TaskTypes DEF Shutdown
  <2> QED
    BY <1>0, <1>5, <2>1, <2>2, ProcessStep DEF Shutdown
<1> QED
  BY <1>1, <1>2, <1>3, <1>4, <1>5

LEMMA RuntimeStep == RuntimeInv /\ [Next]_vars => RuntimeInv'
<1> SUFFICES ASSUME RuntimeInv, [Next]_vars PROVE RuntimeInv'
  OBVIOUS
<1>1. CASE UNCHANGED vars
  <2>1. UNCHANGED <<lives, devnet, setting>> /\ UNCHANGED routing
    BY <1>1 DEF vars, tasks
  <2>2. TypeOK'
    BY <1>1 DEF vars, lives, devnet, tasks, calls, setting, RuntimeInv, TypeOK
  <2> QED
    BY <2>1, <2>2, Untouched DEF RuntimeInv
<1>2. ASSUME NEW n \in Solo,
             Build(n) \/ MintIdentity(n) \/ LoadIdentity(n) \/ CreateP2p(n)
               \/ CreateProtocol(n) \/ StartupFails(n) \/ Run(n) \/ Shutdown(n)
      PROVE  RuntimeInv'
  BY <1>2, BuildStep, MintStep, LoadStep, SoloStep
<1>3. ASSUME NEW n \in Node, Exit(n) \/ OtherArrives(n) \/ Route(n) \/ RouteLagged(n) \/ RoutingEnds(n)
      PROVE  RuntimeInv'
  BY <1>3, ExitStep, RouteTyped
<1>4. ASSUME \/ StartChain \/ MainStart \/ LocalStart \/ CreateNode \/ StartNode
             \/ DevnetStartFails \/ Stabilize \/ ServeWebTransport \/ ShutdownCalled
             \/ LocalShutdown \/ DevnetDrop \/ LocalDrop \/ MonitorEnds \/ ListenerEnds \/ DevnetStopped
      PROVE  RuntimeInv'
  BY <1>4, HelperStep, DevnetStartStep, CreateNodeStep, StartNodeStep, StartFailsStep,
     ShutdownStep, DropStep, StoppedStep
<1>5. ASSUME NEW n \in Node, NEW r \in Req, Acquire(n, r) \/ Handle(n, r) PROVE RuntimeInv'
  BY <1>5, HandlerStep
<1>6. ASSUME NEW r \in Req, Call(r) \/ RequestArrives(r) \/ AnswerArrives(r) \/ Timeout(r)
      PROVE  RuntimeInv'
  BY <1>6, CallStep
<1> QED
  BY <1>1, <1>2, <1>3, <1>4, <1>5, <1>6 DEF Next

\* However many processes share a directory, fail half way or are restarted, no
\* node ever runs with a second identity, but for processes that were given one
\* explicit directory and found it empty at the same time (resolve_identity,
\* load_or_generate_identity, create_node, start_node).
THEOREM IdentityTheorem == Spec => []IdentityKept
<1>1. RuntimeInv => IdentityKept
  <2> SUFFICES ASSUME RuntimeInv, NEW n \in Node
               PROVE  \/ Cardinality(past[n]) <= 1
                      \/ Explicit(n) /\ Root(n) \in overwritten /\ \E m \in Solo \ {n} : Root(m) = Root(n)
    BY DEF IdentityKept
  <2>0. CASE n \in Solo /\ Root(n) \in overwritten
    BY <2>0, RootFacts DEF RuntimeInv, IdentityInv, SharedInv
  <2>1. CASE n \in DevNode \/ Root(n) \notin overwritten
    <3>1. \A i, j \in past[n] : i = j
      BY <2>1 DEF RuntimeInv, IdentityInv
    <3>2. CASE past[n] = {}
      BY <3>2, FS_EmptySet
    <3>3. CASE past[n] # {}
      <4>1. PICK i \in past[n] : past[n] = {i}
        BY <3>1, <3>3
      <4>2. Cardinality({i}) = 1
        BY FS_Singleton
      <4> QED
        BY <4>1, <4>2
    <3> QED
      BY <3>2, <3>3
  <2> QED
    BY <2>0, <2>1 DEF Node
<1> QED
  BY <1>1, RuntimeInit, RuntimeStep, PTL DEF Spec

\* A devnet of any size that reports Ready runs all its nodes; one that
\* reports Stopped runs none and has told every task to end, though it waits for
\* none of them; a LocalDevnet keeps its chain as long as it has nodes (Devnet.start, Devnet.shutdown, LocalDevnet).
THEOREM DevnetTheorem == Spec => []DevnetAllOrNone
<1>1. RuntimeInv => DevnetAllOrNone
  BY DEF RuntimeInv, DevnetInv, DevnetAllOrNone
<1> QED
  BY <1>1, RuntimeInit, RuntimeStep, PTL DEF Spec

\* A call that ends with an answer has the answer to its own request, however
\* late the answers to other calls are (send_and_await_chunk_response).
THEOREM AnswerTheorem == Spec => []OwnAnswer
<1>1. Init => OwnAnswer
  BY DEF Init, OwnAnswer
<1>2. RuntimeInv /\ OwnAnswer /\ [Next]_vars => OwnAnswer'
  <2> SUFFICES ASSUME RuntimeInv, OwnAnswer, [Next]_vars PROVE OwnAnswer'
    OBVIOUS
  <2>1. ASSUME UNCHANGED call PROVE OwnAnswer'
    BY <2>1 DEF OwnAnswer
  <2>2. ASSUME NEW r \in Req, Call(r) \/ RequestArrives(r) \/ AnswerArrives(r) \/ Timeout(r)
        PROVE  OwnAnswer'
    BY <2>2, CallStep
  <2>3. CASE UNCHANGED vars
    BY <2>1, <2>3 DEF vars, calls
  <2>4. ASSUME NEW n \in Solo,
               Build(n) \/ MintIdentity(n) \/ LoadIdentity(n) \/ CreateP2p(n)
                 \/ CreateProtocol(n) \/ StartupFails(n) \/ Run(n) \/ Shutdown(n)
        PROVE  UNCHANGED call
    BY <2>4 DEF Build, MintIdentity, LoadIdentity, CreateP2p, CreateProtocol, StartupFails,
                Run, Shutdown, calls
  <2>5. ASSUME NEW n \in Node, Exit(n) \/ OtherArrives(n) \/ Route(n) \/ RouteLagged(n) \/ RoutingEnds(n)
        PROVE  UNCHANGED call
    BY <2>5 DEF Exit, OtherArrives, Route, RouteLagged, RoutingEnds, calls
  <2>6. ASSUME \/ StartChain \/ MainStart \/ LocalStart \/ CreateNode \/ StartNode
               \/ DevnetStartFails \/ Stabilize \/ ServeWebTransport \/ ShutdownCalled
               \/ LocalShutdown \/ DevnetDrop \/ LocalDrop \/ MonitorEnds \/ ListenerEnds \/ DevnetStopped
        PROVE  UNCHANGED call
    BY <2>6 DEF StartChain, MainStart, LocalStart, DevnetStart, CreateNode, StartNode,
                DevnetStartFails, Stabilize, ServeWebTransport, ShutdownCalled,
                LocalShutdown, DevnetShutdown, DevnetDrop, LocalDrop, MonitorEnds,
                ListenerEnds, DevnetStopped, calls
  <2>7. ASSUME NEW n \in Node, NEW r \in Req, Acquire(n, r) \/ Handle(n, r)
        PROVE  UNCHANGED call
    BY <2>7 DEF Acquire, Handle, calls
  <2> QED
    BY <2>1, <2>2, <2>3, <2>4, <2>5, <2>6, <2>7 DEF Next
<1> QED
  BY <1>1, <1>2, RuntimeInit, RuntimeStep, PTL DEF Spec
-----------------------------------------------------------------------------
(* Automatic upgrades: Upgrade.                                            *)

\* A signed binary, complete or not.
Binary == [ver : Version, kind : {"whole", "part"}]
MaybeBinary == Binary \cup {NoFile}

\* A process past its selection; one that holds the binary it will install.
Holds == {"store", "fill", "swap", "rename", "meta", "metaRename", "disk", "backup",
          "backupFill", "replace"}
Selected == Holds \cup {"resolve", "copy", "lock", "copyLocked", "download"}

Upgrader == [pc : PC, ver : Version, pending : {0} \cup Version,
             got : {0} \cup Version, target : {0} \cup Version, new : MaybeBinary,
             at : {"none", "tmp", "bin", "gone"}, src : MaybeBinary, mixed : BOOLEAN]

\* What a process holds is the version it selected, signed; what it copies to
\* or from the backup is a signed binary.
Sound(p) ==
    /\ p \in Upgrader
    /\ p.pc \in Selected => p.target \in Version
    /\ p.pc \in Holds => p.new \in Binary /\ p.new.ver = p.target
    /\ p.pc \in {"backupFill", "restore"} => p.src \in Binary

\* The file at the name of a version is of this version.
Named(files) ==
    \A v \in Version : files[v] \in MaybeBinary /\ files[v].ver \in {0, v}

\* The rollback finds a backup.
BackedUp == (\E n \in Sibling : node[n].pc \in {"replace", "rollback"}) => backup # NoFile

\* The files all nodes share hold signed binaries, or nothing.
Shared ==
    /\ published \in Version
    /\ list \in [upto : {0} \cup Version, fresh : BOOLEAN]
    /\ tmp \in [Version -> MaybeBinary] /\ bin \in [Version -> MaybeBinary]
    /\ Named(tmp) /\ Named(bin)
    /\ exe \in Binary /\ backup \in MaybeBinary

\* Every process is sound.
Processes ==
    /\ node = [n \in Sibling |-> node[n]]
    /\ \A n \in Sibling : Sound(node[n])

\* Inductive.
UpgradeInv == Shared /\ Processes /\ BackedUp

\* A machine with version 1 and empty caches.
LEMMA UpgradeStarts == ASSUME VersionAssumption PROVE UpgradeInit => UpgradeInv
<1> SUFFICES ASSUME UpgradeInit PROVE UpgradeInv
  OBVIOUS
<1>1. Shared
  BY DEF UpgradeInit, VersionAssumption, Shared, Named, MaybeBinary, Binary, Version, NoFile, NoList, Whole
<1>2. Sound(Started(1))
  BY DEF Started, VersionAssumption, Sound, Upgrader, Version, PC, MaybeBinary, Holds, Selected
<1>3. Processes
  BY <1>2 DEF UpgradeInit, Processes
<1>4. BackedUp
  BY DEF UpgradeInit, BackedUp, Started
<1> QED
  BY <1>1, <1>3, <1>4 DEF UpgradeInv

\* select_upgrade_from_releases: the newest of finitely many versions exists.
LEMMA SelectedVersion ==
    ASSUME VersionAssumption, NEW n, NEW upto \in {0} \cup Version
    PROVE  select_upgrade(n, upto) \in {0} \cup Version
<1> DEFINE E == {v \in 2 .. upto : /\ v > node[n].ver
                                   /\ v \in Pre => n \in Beta}
           T == {MaxVersion - v : v \in E}
<1>1. CASE E = {}
  BY <1>1 DEF select_upgrade
<1>2. CASE E # {}
  <2>0. MaxVersion \in Nat /\ E \subseteq Version
    BY DEF VersionAssumption, Version
  <2>1. T \subseteq Nat /\ T # {}
    BY <1>2, <2>0 DEF Version
  <2>2. PICK x \in T : \A y \in T : ~(<<y, x>> \in OpToRel(<, Nat))
    BY <2>1, WFMin, NatLessThanWellFounded
  <2>3. \A y \in T : ~(y < x)
    BY <2>1, <2>2 DEF OpToRel
  <2>4. PICK v \in E : x = MaxVersion - v
    OBVIOUS
  <2>5. ASSUME NEW w \in E PROVE v >= w
    <3>1. MaxVersion - w \in T
      OBVIOUS
    <3>2. ~(MaxVersion - w < MaxVersion - v)
      BY <2>3, <2>4, <3>1
    <3>3. v \in Int /\ w \in Int /\ MaxVersion \in Int
      BY <2>0, <2>4 DEF Version
    <3> QED
      BY <3>2, <3>3
  <2>6. Max(E) \in E
    BY <2>4, <2>5 DEF Max
  <2> QED
    BY <1>2, <2>0, <2>6 DEF select_upgrade
<1> QED
  BY <1>1, <1>2

\* Which processes a step of node n leaves as they are, and what is left to show
\* for it: its own process is sound, and there is a backup when it needs one.
LEMMA OneMoves ==
    ASSUME UpgradeInv, NEW n \in Sibling, NEW q, Sound(q),
           node' = [node EXCEPT ![n] = q],
           backup # NoFile => backup' # NoFile,
           q.pc \in {"replace", "rollback"} => backup' # NoFile
    PROVE  Processes' /\ BackedUp'
<1>1. \A m \in Sibling : node'[m] = IF m = n THEN q ELSE node[m]
  BY DEF UpgradeInv, Processes
<1>2. Processes'
  BY <1>1 DEF UpgradeInv, Processes
<1>3. BackedUp'
  BY <1>1 DEF UpgradeInv, BackedUp
<1> QED
  BY <1>2, <1>3

\* Steps that leave the files alone.
LEMMA SharedKept ==
    ASSUME UpgradeInv, UNCHANGED <<published, list, tmp, bin, exe, backup>>
    PROVE  Shared' /\ backup' = backup
BY DEF UpgradeInv, Shared, Named

\* A process that has just started, or gives up.
LEMMA StartedSound ==
    ASSUME NEW v \in Version, NEW w \in {0} \cup Version
    PROVE  /\ Sound(Started(v)) /\ Started(v).pc = "sleep"
           /\ Sound([Started(v) EXCEPT !.pending = w])
           /\ [Started(v) EXCEPT !.pending = w].pc = "sleep"
           /\ Sound([Started(v) EXCEPT !.pc = "down"])
           /\ [Started(v) EXCEPT !.pc = "down"].pc = "down"
BY DEF Started, Sound, Upgrader, PC, MaybeBinary, Holds, Selected

\* A step that only moves on keeps what the process holds.
LEMMA GotoSound ==
    ASSUME NEW p, Sound(p), NEW pc \in PC \ {"backupFill", "restore"},
           pc \in Selected => p.pc \in Selected, pc \in Holds => p.pc \in Holds
    PROVE  Sound([p EXCEPT !.pc = pc]) /\ [p EXCEPT !.pc = pc].pc = pc
BY DEF Sound, Upgrader

\* Whole steps of these two kinds.
LEMMA GotoKeeps ==
    ASSUME UpgradeInv, NEW n \in Sibling, NEW pc \in PC \ {"backupFill", "restore", "rollback"},
           Goto(n, pc), pc = "replace" => backup # NoFile,
           pc \in Selected => node[n].pc \in Selected, pc \in Holds => node[n].pc \in Holds,
           UNCHANGED <<published, list, tmp, bin, exe, backup>>
    PROVE  UpgradeInv'
<1> DEFINE q == [node[n] EXCEPT !.pc = pc]
<1>1. Sound(node[n])
  BY DEF UpgradeInv, Processes
<1>2. Sound(q) /\ q.pc = pc
  BY <1>1, GotoSound
<1>3. node' = [node EXCEPT ![n] = q]
  BY DEF Goto
<1> HIDE DEF q
<1>4. Shared' /\ backup' = backup
  BY SharedKept
<1>5. Processes' /\ BackedUp'
  BY <1>2, <1>3, <1>4, OneMoves
<1> QED
  BY <1>4, <1>5 DEF UpgradeInv

LEMMA GiveUpKeeps ==
    ASSUME UpgradeInv, NEW n \in Sibling, GiveUp(n),
           Shared', backup' = backup
    PROVE  UpgradeInv'
<1> DEFINE q == [Started(node[n].ver) EXCEPT !.pending = node[n].pending]
<1>1. node[n].ver \in Version /\ node[n].pending \in {0} \cup Version
  BY DEF UpgradeInv, Processes, Sound, Upgrader
<1>2. Sound(q) /\ q.pc = "sleep"
  BY <1>1, StartedSound
<1>3. node' = [node EXCEPT ![n] = q]
  BY DEF GiveUp, UpgradeInv, Processes
<1> HIDE DEF q
<1>4. Processes' /\ BackedUp'
  BY <1>2, <1>3, OneMoves
<1> QED
  BY <1>4 DEF UpgradeInv

\* check_for_ready_upgrade selects a version that exists.
LEMMA CheckKeeps ==
    ASSUME VersionAssumption, UpgradeInv, NEW n \in Sibling, NEW upto \in {0} \cup Version,
           Check(n, upto), Shared', backup' = backup
    PROVE  UpgradeInv'
<1>1. PICK due \in BOOLEAN : Ready(n, upto, due)
  BY DEF Check
<1>2. PICK v \in {0} \cup Version : v = select_upgrade(n, upto)
  BY SelectedVersion
<1>3. PICK r \in Version : r = node[n].ver
  BY DEF UpgradeInv, Processes, Sound, Upgrader
<1> DEFINE q == IF v = 0 THEN Started(r)
                ELSE [Started(r) EXCEPT !.pending = IF n \in Staged THEN v ELSE 0,
                                            !.pc = IF due THEN "resolve" ELSE "sleep",
                                            !.target = IF due THEN v ELSE 0]
<1>4. node' = [node EXCEPT ![n] = q]
  BY <1>1, <1>2, <1>3 DEF Ready
<1>5. Sound(q) /\ q.pc \in {"resolve", "sleep"}
  BY <1>2, <1>3 DEF Started, Sound, Upgrader, PC, MaybeBinary, Holds, Selected
<1> HIDE DEF q
<1>6. Processes' /\ BackedUp'
  BY <1>4, <1>5, OneMoves
<1> QED
  BY <1>6 DEF UpgradeInv

\* The monitor: release list and selection.
LEMMA MonitorKeeps ==
    ASSUME VersionAssumption, UpgradeInv, NEW n \in Sibling,
           \/ CheckCached(n) \/ CheckStale(n) \/ LockAndRecheck(n)
           \/ Fetch(n) \/ FetchFails(n) \/ WriteList(n)
    PROVE  UpgradeInv'
<1> USE DEF cache, disk, locks, budget
<1>0. list.upto \in {0} \cup Version /\ Sound(node[n])
  BY DEF UpgradeInv, Shared, Processes
<1>1. CASE CheckCached(n)
  BY <1>0, <1>1, SharedKept, CheckKeeps DEF CheckCached
<1>2. CASE CheckStale(n)
  BY <1>2, GotoKeeps DEF CheckStale, PC, Selected, Holds
<1>3. CASE LockAndRecheck(n)
  <2>1. CASE Check(n, list.upto)
    BY <1>0, <1>3, <2>1, SharedKept, CheckKeeps DEF LockAndRecheck
  <2>2. CASE Goto(n, "fetch")
    BY <1>3, <2>2, GotoKeeps DEF LockAndRecheck, PC, Selected, Holds
  <2> QED
    BY <1>3, <2>1, <2>2 DEF LockAndRecheck
<1>4. CASE Fetch(n)
  <2> DEFINE q == [node[n] EXCEPT !.pc = "list", !.got = published]
  <2>1. node' = [node EXCEPT ![n] = q] /\ backup' = backup
    BY <1>4 DEF Fetch
  <2>2. Sound(q) /\ q.pc = "list"
    BY <1>0 DEF UpgradeInv, Shared, Sound, Upgrader, PC, Selected, Holds
  <2>3. Shared'
    BY <1>4 DEF Fetch, NoList, UpgradeInv, Shared, Named
  <2> HIDE DEF q
  <2> QED
    BY <2>1, <2>2, <2>3, OneMoves DEF UpgradeInv
<1>5. CASE FetchFails(n)
  BY <1>5, SharedKept, GiveUpKeeps DEF FetchFails
<1>6. CASE WriteList(n)
  <2>1. PICK g \in {0} \cup Version : g = node[n].got
    BY <1>0 DEF Sound, Upgrader
  <2>2. list' \in [upto : {0} \cup Version, fresh : BOOLEAN]
    <3>1. [upto |-> g, fresh |-> TRUE] \in [upto : {0} \cup Version, fresh : BOOLEAN]
      BY <2>1
    <3>2. list' = [upto |-> g, fresh |-> TRUE] \/ list' = list
      BY <1>6, <2>1 DEF WriteList
    <3> QED
      BY <3>1, <3>2 DEF UpgradeInv, Shared
  <2>3. Shared' /\ backup' = backup
    BY <1>6, <2>2 DEF WriteList, UpgradeInv, Shared, Named
  <2> QED
    BY <1>6, <2>1, <2>3, CheckKeeps DEF WriteList
<1> QED
  BY <1>1, <1>2, <1>3, <1>4, <1>5, <1>6

\* A process that got its binary holds the version it selected.
LEMMA GotBinary ==
    ASSUME UpgradeInv, NEW n \in Sibling, node[n].pc \in Selected,
           NEW f \in Binary, f.ver = node[n].target, NEW pc \in {"disk", "store"},
           node' = [node EXCEPT ![n].pc = pc, ![n].new = f],
           UNCHANGED <<published, list, tmp, bin, exe, backup>>
    PROVE  UpgradeInv'
<1> DEFINE q == [node[n] EXCEPT !.pc = pc, !.new = f]
<1>1. Sound(node[n])
  BY DEF UpgradeInv, Processes
<1>2. node' = [node EXCEPT ![n] = q]
  OBVIOUS
<1>3. Sound(q) /\ q.pc = pc
  BY <1>1 DEF Sound, Upgrader, PC, Selected, Holds, MaybeBinary
<1> HIDE DEF q
<1> QED
  BY <1>2, <1>3, SharedKept, OneMoves DEF UpgradeInv

\* What the cache has under the name of a version.
LEMMA CachedBinary ==
    ASSUME UpgradeInv, NEW v \in Version
    PROVE  /\ bin[v] # NoFile => bin[v] \in Binary /\ bin[v].ver = v
           /\ tmp[v] # NoFile => tmp[v] \in Binary /\ tmp[v].ver = v
<1> USE DEF UpgradeInv, Shared, Named, MaybeBinary
<1>1. 0 \notin Version
  BY DEF Version
<1> QED
  BY <1>1 DEF Binary

\* From the cache, or downloaded and verified.
LEMMA FetchBinaryKeeps ==
    ASSUME UpgradeInv, NEW n \in Sibling,
           \/ Resolve(n) \/ CopyCached(n) \/ CopyCachedFails(n)
           \/ LockDownload(n) \/ CopyLocked(n) \/ Download(n)
           \/ DownloadFails(n)
    PROVE  UpgradeInv'
<1> USE DEF cache, disk, locks, budget, At
<1>0. Sound(node[n])
  BY DEF UpgradeInv, Processes
<1>1. CASE Resolve(n)
  <2>1. PICK pc \in {"copy", "lock"} : Goto(n, pc)
    BY <1>1 DEF Resolve
  <2> QED
    BY <1>1, <2>1, GotoKeeps DEF Resolve, PC, Selected, Holds
<1>2. CASE CopyCached(n)
  <2>1. node[n].pc = "copy" /\ node[n].target \in Version
    BY <1>0, <1>2 DEF CopyCached, Sound, Selected
  <2>2. bin[node[n].target] \in Binary /\ bin[node[n].target].ver = node[n].target
    BY <1>2, <2>1, CachedBinary DEF CopyCached
  <2>3. node[n].pc \in Selected
    BY <2>1 DEF Selected
  <2> QED
    BY <1>2, <2>2, <2>3, GotBinary DEF CopyCached
<1>3. CASE CopyCachedFails(n)
  BY <1>3, GotoKeeps DEF CopyCachedFails, PC, Selected, Holds
<1>4. CASE LockDownload(n)
  <2>1. PICK pc \in {"copyLocked", "download"} : Goto(n, pc)
    BY <1>4 DEF LockDownload
  <2> QED
    BY <1>4, <2>1, GotoKeeps DEF LockDownload, PC, Selected, Holds
<1>5. CASE CopyLocked(n)
  <2>1. node[n].pc = "copyLocked" /\ node[n].target \in Version /\ node[n].pc \in Selected
    BY <1>0, <1>5 DEF CopyLocked, Sound, Selected
  <2>2. CASE GiveUp(n)
    BY <1>5, <2>2, SharedKept, GiveUpKeeps DEF CopyLocked
  <2>3. CASE /\ bin[node[n].target] # NoFile
             /\ node' = [node EXCEPT ![n].pc = "disk", ![n].new = bin[node[n].target]]
    <3>1. bin[node[n].target] \in Binary /\ bin[node[n].target].ver = node[n].target
      BY <2>1, <2>3, CachedBinary
    <3> QED
      BY <1>5, <2>1, <2>3, <3>1, GotBinary DEF CopyLocked
  <2> QED
    BY <1>5, <2>2, <2>3 DEF CopyLocked
<1>6. CASE Download(n)
  <2>1. node[n].pc = "download" /\ node[n].target \in Version /\ node[n].pc \in Selected
    BY <1>0, <1>6 DEF Download, Sound, Selected
  <2>2. PICK archive \in Archive :
          /\ verify_from_file(archive)
          /\ extract_binary(archive, node[n].target) # NoFile
          /\ node' = [node EXCEPT ![n].pc = "store",
                                  ![n].new = extract_binary(archive, node[n].target)]
    BY <1>6 DEF Download
  <2>3. archive = "release"
    BY <2>2 DEF Archive, verify_from_file, extract_binary
  <2>4. extract_binary(archive, node[n].target) = Whole(node[n].target)
    BY <2>3 DEF extract_binary
  <2>5. Whole(node[n].target) \in Binary /\ Whole(node[n].target).ver = node[n].target
    BY <2>1 DEF Whole, Binary
  <2> QED
    BY <1>6, <2>1, <2>2, <2>4, <2>5, GotBinary DEF Download
<1>7. CASE DownloadFails(n)
  BY <1>7, SharedKept, GiveUpKeeps DEF DownloadFails
<1> QED
  BY <1>1, <1>2, <1>3, <1>4, <1>5, <1>6, <1>7

\* A step of the store: the files of one version change, to what they may hold.
LEMMA StoreFilesKeep ==
    ASSUME UpgradeInv, NEW v \in Version,
           NEW f \in {NoFile} \cup {b \in Binary : b.ver = v},
           NEW g \in {NoFile} \cup {b \in Binary : b.ver = v},
           tmp' \in {tmp, [tmp EXCEPT ![v] = f]}, bin' \in {bin, [bin EXCEPT ![v] = g]},
           UNCHANGED <<published, list, exe, backup>>
    PROVE  Shared' /\ backup' = backup
<1>1. f \in MaybeBinary /\ g \in MaybeBinary /\ f.ver \in {0, v} /\ g.ver \in {0, v}
  BY DEF MaybeBinary, NoFile
<1>2. tmp' \in [Version -> MaybeBinary] /\ Named(tmp')
  BY <1>1 DEF UpgradeInv, Shared, Named
<1>3. bin' \in [Version -> MaybeBinary] /\ Named(bin')
  BY <1>1 DEF UpgradeInv, Shared, Named
<1>4. Shared'
  BY <1>2, <1>3 DEF UpgradeInv, Shared, Named
<1> QED
  BY <1>4

\* Only the name of the file it fills changes for the other processes.
LEMMA WritersMove ==
    ASSUME UpgradeInv, NEW n \in Sibling, NEW q, Sound(q),
           NEW ps, DOMAIN ps = Sibling,
           \A m \in Sibling : Sound(ps[m]) /\ ps[m].pc = node[m].pc,
           node' = [ps EXCEPT ![n] = q], backup' = backup,
           q.pc \notin {"replace", "rollback"}, Shared'
    PROVE  UpgradeInv'
<1>1. \A m \in Sibling : m \in DOMAIN node' /\ node'[m] = IF m = n THEN q ELSE ps[m]
  OBVIOUS
<1>2. Processes'
  BY <1>1 DEF Processes
<1>3. BackedUp'
  BY <1>1 DEF UpgradeInv, BackedUp
<1> QED
  BY <1>2, <1>3 DEF UpgradeInv

\* ... which keeps them sound.
LEMMA MovedSound ==
    ASSUME NEW from, NEW to \in {"bin", "gone"}, NEW v, NEW ps,
           \A m \in Sibling : Sound(ps[m]) /\ ps[m].pc = node[m].pc
    PROVE  /\ DOMAIN Moved(from, to, v, ps) = Sibling
           /\ \A m \in Sibling : /\ Sound(Moved(from, to, v, ps)[m])
                                 /\ Moved(from, to, v, ps)[m].pc = node[m].pc
                                 /\ Moved(from, to, v, ps)[m].new = ps[m].new
                                 /\ Moved(from, to, v, ps)[m].target = ps[m].target
<1>1. ASSUME NEW p, Sound(p)
      PROVE  LET r == [p EXCEPT !.at = to]
             IN  Sound(r) /\ r.pc = p.pc /\ r.new = p.new /\ r.target = p.target
  BY <1>1 DEF Sound, Upgrader
<1> QED
  BY <1>1 DEF Moved

\* BinaryCache.store, by any number of nodes at once.
LEMMA StoreKeeps ==
    ASSUME UpgradeInv, NEW n \in Sibling,
           \/ StoreBegin(n) \/ StoreFill(n) \/ StoreRemove(n)
           \/ StoreRename(n) \/ StoreMeta(n) \/ StoreMetaRename(n)
           \/ StoreFails(n)
    PROVE  UpgradeInv'
<1> USE DEF cache, disk, locks, budget, At
<1>0. /\ Sound(node[n])
      /\ node[n].pc \in {"store", "fill", "swap", "rename", "meta", "metaRename"}
      /\ node[n].pc \in Selected /\ node[n].pc \in Holds
      /\ node[n].target \in Version
      /\ node[n].new \in Binary /\ node[n].new.ver = node[n].target
  <2>1. Sound(node[n])
    BY DEF UpgradeInv, Processes
  <2>2. node[n].pc \in {"store", "fill", "swap", "rename", "meta", "metaRename"}
    BY DEF StoreBegin, StoreFill, StoreRemove, StoreRename, StoreMeta,
           StoreMetaRename, StoreFails
  <2>3. node[n].pc \in Selected /\ node[n].pc \in Holds
    BY <2>2 DEF Selected, Holds
  <2> QED
    BY <2>1, <2>2, <2>3 DEF Sound
<1> DEFINE v == node[n].target
           Files == {NoFile} \cup {b \in Binary : b.ver = v}
<1>a. Part(v) \in Files /\ NoFile \in Files /\ node[n].new \in Files
  BY <1>0 DEF Part, Binary
<1>b. \A m \in Sibling : Sound(node[m]) /\ node[m].pc = node[m].pc
  BY DEF UpgradeInv, Processes
<1>1. CASE StoreBegin(n)
  <2> DEFINE q == [node[n] EXCEPT !.pc = "fill", !.at = "tmp"]
  <2>1. Shared' /\ backup' = backup
    BY <1>0, <1>1, <1>a, StoreFilesKeep DEF StoreBegin
  <2>2. node' = [node EXCEPT ![n] = q]
    BY <1>1 DEF StoreBegin
  <2>3. Sound(q) /\ q.pc = "fill"
    BY <1>0 DEF Sound, Upgrader, PC
  <2> HIDE DEF q
  <2> QED
    BY <2>1, <2>2, <2>3, OneMoves DEF UpgradeInv
<1>2. CASE StoreFill(n)
  <2> DEFINE q == [node[n] EXCEPT !.pc = "swap", !.at = "none"]
  <2>0. Filled(n) \in Files
    BY <1>a DEF Filled
  <2>1. Shared' /\ backup' = backup
    BY <1>0, <1>2, <2>0, StoreFilesKeep DEF StoreFill
  <2>2. node' = [node EXCEPT ![n] = q]
    BY <1>2 DEF StoreFill
  <2>3. Sound(q) /\ q.pc = "swap"
    BY <1>0 DEF Sound, Upgrader, PC, Selected, Holds
  <2> HIDE DEF q
  <2> QED
    BY <2>1, <2>2, <2>3, OneMoves DEF UpgradeInv
<1>3. CASE StoreRemove(n)
  <2> DEFINE ps == Moved("bin", "gone", v, node)
             q == [ps[n] EXCEPT !.pc = "rename"]
  <2>1. Shared' /\ backup' = backup
    BY <1>0, <1>3, <1>a, StoreFilesKeep DEF StoreRemove
  <2>2. node' = [ps EXCEPT ![n] = q]
    BY <1>3 DEF StoreRemove
  <2>3. DOMAIN ps = Sibling /\ \A m \in Sibling : Sound(ps[m]) /\ ps[m].pc = node[m].pc
    BY <1>b, MovedSound
  <2> HIDE DEF ps
  <2>4. Sound(q) /\ q.pc = "rename"
    BY <1>0, <2>3, GotoSound DEF PC
  <2> HIDE DEF q
  <2> QED
    BY <2>1, <2>2, <2>3, <2>4, WritersMove
<1>4. CASE StoreRename(n)
  <2> DEFINE qs == Moved("bin", "gone", v, node)
             ps == Moved("tmp", "bin", v, qs)
  <2>0. PICK pc \in {"meta", "disk"} : node' = [ps EXCEPT ![n].pc = pc]
    BY <1>4 DEF StoreRename
  <2> DEFINE q == [ps[n] EXCEPT !.pc = pc]
  <2>1. Shared' /\ backup' = backup
    <3>1. tmp[v] # NoFile => tmp[v] \in Files
      BY <1>0, CachedBinary
    <3>2. CASE tmp[v] # NoFile
      BY <1>0, <1>4, <1>a, <3>1, <3>2, StoreFilesKeep DEF StoreRename
    <3>3. CASE tmp[v] = NoFile
      BY <1>0, <1>4, <1>a, <3>3, StoreFilesKeep DEF StoreRename
    <3> QED
      BY <3>2, <3>3
  <2>2. node' = [ps EXCEPT ![n] = q]
    BY <2>0
  <2>3. DOMAIN ps = Sibling /\ \A m \in Sibling : Sound(ps[m]) /\ ps[m].pc = node[m].pc
    <3>1. \A m \in Sibling : Sound(qs[m]) /\ qs[m].pc = node[m].pc
      BY <1>b, MovedSound
    <3> HIDE DEF qs
    <3> QED
      BY <3>1, MovedSound
  <2> HIDE DEF ps
  <2>4. Sound(q) /\ q.pc = pc
    BY <1>0, <2>3, GotoSound DEF PC
  <2> HIDE DEF q
  <2> QED
    BY <2>1, <2>2, <2>3, <2>4, WritersMove
<1>5. CASE StoreMeta(n)
  BY <1>0, <1>5, GotoKeeps DEF StoreMeta, PC
<1>6. CASE StoreMetaRename(n)
  BY <1>0, <1>6, GotoKeeps DEF StoreMetaRename, PC
<1>7. CASE StoreFails(n)
  BY <1>0, <1>7, GotoKeeps DEF StoreFails, PC
<1> QED
  BY <1>1, <1>2, <1>3, <1>4, <1>5, <1>6, <1>7

\* apply_upgrade: backup, replacement and rollback.
LEMMA InstallKeeps ==
    ASSUME UpgradeInv, NEW n \in Sibling,
           \/ CheckDisk(n) \/ BackupBegin(n) \/ BackupFill(n) \/ BackupFails(n)
           \/ Replace(n) \/ ReplaceFails(n) \/ Rollback(n) \/ Restore(n)
    PROVE  UpgradeInv'
<1> USE DEF cache, disk, locks, budget, At
<1>0. Sound(node[n]) /\ exe \in Binary /\ backup \in MaybeBinary
  BY DEF UpgradeInv, Processes, Shared
<1>a. ASSUME NEW b \in Binary PROVE Part(b.ver) \in Binary /\ b # NoFile
  BY <1>a DEF Part, Binary, NoFile
<1>1. CASE CheckDisk(n)
  <2>1. PICK pc \in {"restart", "backup"} : Goto(n, pc)
    BY <1>1 DEF CheckDisk
  <2> QED
    BY <1>1, <2>1, GotoKeeps DEF CheckDisk, PC, Selected, Holds
<1>2. CASE BackupBegin(n)
  <2> DEFINE clash == {m \in Sibling : At(m, "backupFill") /\ node[m].src # exe}
  <2>0. PICK mine \in BOOLEAN : mine = (clash # {})
    OBVIOUS
  <2>1. node' = [m \in Sibling |->
                   IF m = n THEN [node[n] EXCEPT !.pc = "backupFill", !.src = exe, !.mixed = mine]
                   ELSE IF m \in clash THEN [node[m] EXCEPT !.mixed = TRUE]
                   ELSE node[m]]
    BY <1>2, <2>0 DEF BackupBegin
  <2> HIDE DEF clash
  <2>2. Part(exe.ver) \in Binary /\ Part(exe.ver) # NoFile /\ backup' = Part(exe.ver)
    BY <1>0, <1>2, <1>a DEF BackupBegin
  <2>3. Shared'
    BY <1>2, <2>2 DEF BackupBegin, UpgradeInv, Shared, Named, MaybeBinary
  <2>4. Sound([node[n] EXCEPT !.pc = "backupFill", !.src = exe, !.mixed = mine])
    BY <1>0, <1>2 DEF BackupBegin, Sound, Upgrader, PC, Selected, Holds, MaybeBinary
  <2>5. \A m \in Sibling : Sound([node[m] EXCEPT !.mixed = TRUE]) /\ Sound(node[m])
    BY DEF UpgradeInv, Processes, Sound, Upgrader
  <2>6. Processes'
    BY <2>1, <2>4, <2>5 DEF Processes
  <2>7. BackedUp'
    BY <2>2 DEF BackedUp
  <2> QED
    BY <2>3, <2>6, <2>7 DEF UpgradeInv
<1>3. CASE BackupFill(n)
  <2> DEFINE q == [node[n] EXCEPT !.pc = "replace", !.src = NoFile, !.mixed = FALSE]
  <2>1. node' = [node EXCEPT ![n] = q]
    BY <1>3 DEF BackupFill
  <2>2. node[n].src \in Binary
    BY <1>0, <1>3 DEF BackupFill, Sound
  <2>3. backup' \in Binary /\ backup' # NoFile
    BY <1>3, <1>a, <2>2 DEF BackupFill
  <2>4. Shared'
    BY <1>3, <2>3 DEF BackupFill, UpgradeInv, Shared, Named, MaybeBinary
  <2>5. Sound(q)
    BY <1>0, <1>3 DEF BackupFill, Sound, Upgrader, PC, Selected, Holds, MaybeBinary
  <2> HIDE DEF q
  <2> QED
    BY <2>1, <2>3, <2>4, <2>5, OneMoves DEF UpgradeInv
<1>4. CASE BackupFails(n)
  BY <1>4, SharedKept, GiveUpKeeps DEF BackupFails
<1>5. CASE Replace(n)
  <2> DEFINE q == [node[n] EXCEPT !.pc = "restart", !.new = NoFile]
  <2>1. node' = [node EXCEPT ![n] = q]
    BY <1>5 DEF Replace
  <2>2. exe' \in Binary
    BY <1>0, <1>5 DEF Replace, Sound, Holds
  <2>3. Shared' /\ backup' = backup
    BY <1>5, <2>2 DEF Replace, UpgradeInv, Shared, Named
  <2>4. Sound(q) /\ q.pc = "restart"
    BY <1>0 DEF Sound, Upgrader, PC, Selected, Holds, MaybeBinary
  <2> HIDE DEF q
  <2> QED
    BY <2>1, <2>3, <2>4, OneMoves DEF UpgradeInv
<1>6. CASE ReplaceFails(n)
  <2> DEFINE q == [node[n] EXCEPT !.pc = "rollback"]
  <2>1. node' = [node EXCEPT ![n] = q]
    BY <1>6 DEF ReplaceFails, Goto
  <2>2. Sound(q) /\ q.pc = "rollback"
    BY <1>0, GotoSound DEF PC, Selected, Holds
  <2>3. backup # NoFile
    BY <1>6 DEF ReplaceFails, UpgradeInv, BackedUp
  <2> HIDE DEF q
  <2>4. Shared' /\ backup' = backup
    BY <1>6, SharedKept DEF ReplaceFails
  <2> QED
    BY <2>1, <2>2, <2>3, <2>4, OneMoves DEF UpgradeInv
<1>7. CASE Rollback(n)
  <2>1. CASE GiveUp(n) /\ UNCHANGED exe
    BY <1>7, <2>1, SharedKept, GiveUpKeeps DEF Rollback
  <2>2. CASE /\ exe' = Part(exe.ver)
             /\ node' = [node EXCEPT ![n].pc = "restore", ![n].src = backup]
    <3> DEFINE q == [node[n] EXCEPT !.pc = "restore", !.src = backup]
    <3>1. node' = [node EXCEPT ![n] = q]
      BY <2>2
    <3>2. backup \in Binary
      BY <1>0, <1>7 DEF Rollback, UpgradeInv, BackedUp, MaybeBinary
    <3>3. Sound(q) /\ q.pc = "restore"
      BY <1>0, <3>2 DEF Sound, Upgrader, PC, Selected, Holds, MaybeBinary
    <3>4. exe' \in Binary
      BY <1>0, <1>a, <2>2
    <3>5. Shared' /\ backup' = backup
      BY <1>7, <3>4 DEF Rollback, UpgradeInv, Shared, Named
    <3> HIDE DEF q
    <3> QED
      BY <3>1, <3>3, <3>5, OneMoves DEF UpgradeInv
  <2> QED
    BY <1>7, <2>1, <2>2 DEF Rollback
<1>8. CASE Restore(n)
  <2>1. exe' \in Binary
    BY <1>0, <1>8 DEF Restore, Sound
  <2>2. Shared' /\ backup' = backup
    BY <1>8, <2>1 DEF Restore, UpgradeInv, Shared, Named
  <2> QED
    BY <1>8, <2>2, GiveUpKeeps DEF Restore
<1> QED
  BY <1>1, <1>2, <1>3, <1>4, <1>5, <1>6, <1>7, <1>8

\* A process ends, crashes or starts: its image is a signed binary.
LEMMA ProcessKeeps ==
    ASSUME UpgradeInv, NEW n \in Sibling,
           \/ Restart(n) \/ RestartFails(n) \/ ExitProcess(n) \/ Crash(n) \/ Launch(n)
    PROVE  UpgradeInv'
<1> USE DEF cache, disk, locks, budget, At
<1>0. Sound(node[n]) /\ exe \in Binary /\ exe.ver \in Version /\ node[n].ver \in Version
  BY DEF UpgradeInv, Processes, Shared, Sound, Upgrader, Binary
<1>1. CASE Restart(n)
  <2>1. PICK f \in MaybeBinary : node' = [node EXCEPT ![n].pc = "stopping", ![n].src = f]
    BY <1>0, <1>1 DEF Restart, MaybeBinary
  <2> DEFINE q == [node[n] EXCEPT !.pc = "stopping", !.src = f]
  <2>2. node' = [node EXCEPT ![n] = q]
    BY <2>1
  <2>3. Sound(q) /\ q.pc = "stopping"
    BY <1>0 DEF Sound, Upgrader, PC, Selected, Holds
  <2> HIDE DEF q
  <2> QED
    BY <1>1, <2>2, <2>3, SharedKept, OneMoves DEF Restart, UpgradeInv
<1>2. CASE RestartFails(n)
  BY <1>2, SharedKept, GiveUpKeeps DEF RestartFails
<1>3. ASSUME NEW q, Sound(q), q.pc \in {"sleep", "down"}, node' = [node EXCEPT ![n] = q],
             UNCHANGED <<published, list, tmp, bin, exe, backup>>
      PROVE  UpgradeInv'
  BY <1>3, SharedKept, OneMoves DEF UpgradeInv
<1>4. CASE ExitProcess(n)
  <2>1. CASE node[n].src = NoFile
    BY <1>0, <1>3, <1>4, <2>1, StartedSound DEF ExitProcess, UpgradeInv, Processes
  <2>2. CASE node[n].src # NoFile
    <3>1. node[n].src.ver \in Version
      BY <1>0, <2>2 DEF Sound, Upgrader, MaybeBinary, Binary
    <3> QED
      BY <1>3, <1>4, <2>2, <3>1, StartedSound DEF ExitProcess
  <2> QED
    BY <2>1, <2>2
<1>5. CASE Crash(n)
  BY <1>0, <1>3, <1>5, StartedSound DEF Crash, UpgradeInv, Processes
<1>6. CASE Launch(n)
  BY <1>0, <1>3, <1>6, StartedSound DEF Launch
<1> QED
  BY <1>1, <1>2, <1>4, <1>5, <1>6

LEMMA UpgradeStep ==
    ASSUME VersionAssumption, UpgradeInv, [UpgradeNext]_upgradeVars
    PROVE  UpgradeInv'
<1> USE DEF cache, disk, locks, budget
<1>0. ASSUME UNCHANGED node, UNCHANGED backup, Shared' PROVE UpgradeInv'
  BY <1>0 DEF UpgradeInv, Processes, BackedUp
<1>1. CASE Publish
  <2>1. published' \in Version
    BY <1>1 DEF Publish, UpgradeInv, Shared, VersionAssumption, Version
  <2>2. Shared'
    BY <1>1, <2>1 DEF Publish, UpgradeInv, Shared, Named
  <2> QED
    BY <1>0, <1>1, <2>2 DEF Publish
<1>2. CASE Expire
  <2>1. Shared'
    BY <1>2 DEF Expire, UpgradeInv, Shared, Named
  <2> QED
    BY <1>0, <1>2, <2>1 DEF Expire
<1>3. ASSUME NEW n \in Sibling, Work(n) PROVE UpgradeInv'
  BY <1>3, MonitorKeeps, FetchBinaryKeeps, StoreKeeps, InstallKeeps, ProcessKeeps DEF Work
<1>4. ASSUME NEW n \in Sibling,
             \/ FetchFails(n) \/ DownloadFails(n) \/ StoreFails(n)
             \/ BackupFails(n) \/ ReplaceFails(n) \/ Crash(n)
      PROVE  UpgradeInv'
  BY <1>4, MonitorKeeps, FetchBinaryKeeps, StoreKeeps, InstallKeeps, ProcessKeeps
<1>5. CASE UNCHANGED upgradeVars
  BY <1>0, <1>5, SharedKept DEF upgradeVars
<1> QED
  BY <1>1, <1>2, <1>3, <1>4, <1>5 DEF UpgradeNext

LEMMA UpgradeSafe == ASSUME UpgradeInv PROVE OnlySigned
<1>1. ASSUME NEW n \in Sibling, Installing(n)
      PROVE  node[n].new.ver = node[n].target /\ node[n].new.kind \in {"whole", "part"}
  BY <1>1 DEF Installing, UpgradeInv, Processes, Sound, Holds, Binary
<1>2. exe.kind # "forged"
  BY DEF UpgradeInv, Shared, Binary
<1>3. ASSUME NEW v \in Version PROVE bin[v].kind # "forged" /\ bin[v].ver \in {0, v}
  BY <1>3 DEF UpgradeInv, Shared, Named, MaybeBinary, Binary, NoFile
<1> QED
  BY <1>1, <1>2, <1>3 DEF OnlySigned

\* However many nodes share the executable and the cache, and whatever fails,
\* crashes or is sent by the server: apply_upgrade replaces the executable only
\* by a binary of the selected version that verify_from_file has passed, and
\* neither BinaryCache nor the executable ever holds another.
THEOREM SignedTheorem == UpgradeSpec => []OnlySigned
<1> USE VersionAssumption
<1>1. UpgradeInit => UpgradeInv
  BY UpgradeStarts
<1>2. UpgradeInv /\ [UpgradeNext]_upgradeVars => UpgradeInv'
  BY UpgradeStep
<1>3. UpgradeInv => OnlySigned
  BY UpgradeSafe
<1> QED
  BY <1>1, <1>2, <1>3, PTL DEF UpgradeSpec
======================================================================================================================================================
