------------------------ MODULE NodeMetadata_proofs ------------------------
(***************************************************************************)
(* Proofs about NodeMetadata, for any configurations and any number of     *)
(* changes and faults.                                                     *)
(*                                                                         *)
(* Both properties are about how bitcoind reads a line that the charm      *)
(* rendered around words of the operator's choice, with a bitcoin.conf of  *)
(* the operator's choice before it.  The first half of the module says     *)
(* what such a line holds at each position (Hardened): what the operator   *)
(* gave, without the words that are dropped, then the pins, which are      *)
(* therefore the last of their names, and the only ones unless there are   *)
(* quotes.                                                                 *)
(* The invariant says that the node always runs such a line, of whichever  *)
(* configuration, and that the answers and flags a collection holds are    *)
(* of the line that it began with, for as long as that node has run.       *)
(***************************************************************************)
EXTENDS NodeMetadata, WellFoundedInduction, TLAPS

\* A bounded, nonempty set of positions has a last one.
LEMMA LastPosition ==
  ASSUME NEW S \in SUBSET Nat, S # {}, NEW n \in Nat, \A i \in S : i <= n
  PROVE  Max(S) \in S /\ \A j \in S : j <= Max(S)
<1> DEFINE T == {k \in Nat : \E i \in S : k = n - i}
           R == OpToRel(<, Nat)
<1>1. T \subseteq Nat /\ T # {}
  <2>1. PICK i \in S : i <= n
    OBVIOUS
  <2>2. n - i \in T
    BY <2>1
  <2> QED
    BY <2>2
<1>2. \A x, y \in Nat : x < y => <<x, y>> \in R
  BY DEF OpToRel
<1>3. IsWellFoundedOn(R, Nat)
  BY NatLessThanWellFounded
<1> HIDE DEF T, R
<1>4. PICK x \in T : \A y \in T : ~(<<y, x>> \in R)
  BY <1>1, <1>3, WFMin
<1>5. ASSUME NEW y \in T PROVE x <= y
  <2>1. x \in Nat /\ y \in Nat /\ ~(y < x)
    BY <1>1, <1>2, <1>4, Zenon
  <2> QED
    BY <2>1
<1>6. PICK i \in S : x = n - i
  BY DEF T
<1>7. \A j \in S : j <= i
  <2> SUFFICES ASSUME NEW j \in S PROVE j <= i
    OBVIOUS
  <2>1. n - j \in T
    BY DEF T
  <2> QED
    BY <1>5, <1>6, <2>1
<1> QED
  BY <1>7 DEF Max

-----------------------------------------------------------------------------
(* Command lines.                                                          *)

\* Dropping tokens leaves the others where they are.
LEMMA WithoutIs ==
  ASSUME NEW tokens, NEW names
  PROVE  /\ DOMAIN Without(tokens, names) =
              {i \in DOMAIN tokens : tokens[i].how = "quoted" \/ tokens[i].name \notin names}
         /\ \A i \in DOMAIN Without(tokens, names) : Without(tokens, names)[i] = tokens[i]
BY DEF Without, Restrict

\* new is tokens with t at position k.
Extends(new, tokens, k, t) ==
    /\ DOMAIN new = DOMAIN tokens \cup {k} /\ new[k] = t
    /\ \A i \in DOMAIN tokens : new[i] = tokens[i]

\* Appending one token behind the others.
LEMMA AppendOne ==
  ASSUME NEW tokens, NEW n \in Nat, NEW t, \A i \in DOMAIN tokens : i \in Nat /\ i <= n
  PROVE  Extends(AppendAt(tokens, n, <<t>>), tokens, n + 1, t)
<1> DEFINE new == AppendAt(tokens, n, <<t>>)
<1>1. {n + k : k \in DOMAIN <<t>>} = {n + 1} /\ <<t>>[(n + 1) - n] = t
  <2>1. DOMAIN <<t>> = {1} /\ <<t>>[1] = t
    OBVIOUS
  <2>2. {n + k : k \in {1}} = {n + 1} /\ (n + 1) - n = 1
    OBVIOUS
  <2> QED
    BY <2>1, <2>2
<1>2. new = [i \in DOMAIN tokens \cup {n + 1} |-> IF i \in DOMAIN tokens THEN tokens[i] ELSE <<t>>[i - n]]
  BY <1>1, Zenon DEF AppendAt
<1> HIDE DEF new
<1>3. n + 1 \notin DOMAIN tokens
  OBVIOUS
<1>4. DOMAIN new = DOMAIN tokens \cup {n + 1}
  BY <1>1, <1>2
<1>5. new[n + 1] = t
  BY <1>1, <1>2, <1>3
<1>6. \A i \in DOMAIN tokens : new[i] = tokens[i]
  BY <1>2
<1> QED
  BY <1>4, <1>5, <1>6 DEF new, Extends

\* Appending the pinned options behind the operator's.
LEMMA AppendPins ==
  ASSUME NEW tokens, NEW n \in Nat, \A i \in DOMAIN tokens : i \in Nat /\ i <= n
  PROVE  LET new == AppendAt(tokens, n, Pins)
         IN  /\ DOMAIN new = DOMAIN tokens \cup {n + 1, n + 2, n + 3}
             /\ new[n + 1] = Opt("rpcbind", "127.0.0.1") /\ new[n + 2] = Opt("rpcbind", "[::1]")
             /\ new[n + 3] = Opt("rpcport", BITCOIND_RPC_PORT)
             /\ \A i \in DOMAIN tokens : new[i] = tokens[i]
<1> DEFINE new == AppendAt(tokens, n, Pins)
           p1 == Opt("rpcbind", "127.0.0.1")
           p2 == Opt("rpcbind", "[::1]")
           p3 == Opt("rpcport", BITCOIND_RPC_PORT)
<1>1. /\ {n + k : k \in DOMAIN Pins} = {n + 1, n + 2, n + 3}
      /\ Pins[(n + 1) - n] = p1 /\ Pins[(n + 2) - n] = p2 /\ Pins[(n + 3) - n] = p3
  <2>0. Pins = <<p1, p2, p3>>
    BY DEF Pins
  <2> HIDE DEF p1, p2, p3
  <2>1. DOMAIN Pins = {1, 2, 3} /\ Pins[1] = p1 /\ Pins[2] = p2 /\ Pins[3] = p3
    BY <2>0
  <2>2. {n + k : k \in {1, 2, 3}} = {n + 1, n + 2, n + 3} /\ (n + 1) - n = 1 /\ (n + 2) - n = 2 /\ (n + 3) - n = 3
    OBVIOUS
  <2> QED
    BY <2>1, <2>2
<1>2. new = [i \in DOMAIN tokens \cup {n + 1, n + 2, n + 3} |->
                IF i \in DOMAIN tokens THEN tokens[i] ELSE Pins[i - n]]
  BY <1>1, Zenon DEF AppendAt
<1> HIDE DEF new, p1, p2, p3
<1>3. n + 1 \notin DOMAIN tokens /\ n + 2 \notin DOMAIN tokens /\ n + 3 \notin DOMAIN tokens
  OBVIOUS
<1>4. DOMAIN new = DOMAIN tokens \cup {n + 1, n + 2, n + 3}
  BY <1>1, <1>2
<1>5. new[n + 1] = p1 /\ new[n + 2] = p2 /\ new[n + 3] = p3
  BY <1>1, <1>2, <1>3
<1>6. \A i \in DOMAIN tokens : new[i] = tokens[i]
  BY <1>2
<1> QED
  BY <1>4, <1>5, <1>6 DEF new, p1, p2, p3

\* A position of a line that was rendered from args, and perhaps started with a
\* bitcoin.conf, holds a setting of that file, one of the operator's words that
\* was kept, a pinned option, or what was appended behind them.
At(t, args, i) ==
    LET n == Len(args)
    IN  /\ i \in Int
        /\ \/ i <= 0 /\ t[i].how = "conf"
           \/ /\ i \in DOMAIN args /\ i > 0 /\ i <= n /\ t[i] = args[i]
              /\ args[i].how = "quoted" \/ args[i].name \notin RpcBindOpts
           \/ i = n + 1 /\ t[i] = Opt("rpcbind", "127.0.0.1")
           \/ i = n + 2 /\ t[i] = Opt("rpcbind", "[::1]")
           \/ i = n + 3 /\ t[i] = Opt("rpcport", BITCOIND_RPC_PORT)
           \/ i = n + 4 /\ t[i] = Opt("disablewallet", 1)
           \/ i = n + 5 /\ t[i].name = "rpcpassword" /\ t[i].how = "plain"

Hardened(t, args) ==
    /\ \A i \in DOMAIN t : At(t, args, i)
    /\ \A k \in 1..3 : Len(args) + k \in DOMAIN t
    /\ \A i \in DOMAIN args : args[i].name \notin RpcBindOpts \cup WalletOpts => i \in DOMAIN t

\* What harden_service_args makes of any arguments.
LEMMA HardenIs ==
  ASSUME NEW args, args \in Seq({args[i] : i \in DOMAIN args}), NEW disableWallet
  PROVE  LET t == harden_service_args(args, disableWallet)
         IN  Hardened(t, args) /\ \A i \in DOMAIN t : i \in Nat \ {0} /\ i <= Len(args) + 4
<1> DEFINE n == Len(args)
           own == Without(args, RpcBindOpts)
           pinned == AppendAt(own, n, Pins)
           rest == Without(pinned, WalletOpts)
           last == AppendAt(rest, n + 3, <<Opt("disablewallet", 1)>>)
<1>1. n \in Nat /\ DOMAIN args = 1..n
  OBVIOUS
<1>2. /\ DOMAIN own = {i \in DOMAIN args : args[i].how = "quoted" \/ args[i].name \notin RpcBindOpts}
      /\ \A i \in DOMAIN own : own[i] = args[i]
  BY WithoutIs
<1>3. \A i \in DOMAIN own : i \in Nat /\ 0 < i /\ i <= n
  BY <1>1, <1>2
<1>4. /\ DOMAIN pinned = DOMAIN own \cup {n + 1, n + 2, n + 3}
      /\ pinned[n + 1] = Opt("rpcbind", "127.0.0.1") /\ pinned[n + 2] = Opt("rpcbind", "[::1]")
      /\ pinned[n + 3] = Opt("rpcport", BITCOIND_RPC_PORT)
      /\ \A i \in DOMAIN own : pinned[i] = own[i]
  BY <1>1, <1>3, AppendPins
<1>5. /\ DOMAIN rest = {i \in DOMAIN pinned : pinned[i].how = "quoted" \/ pinned[i].name \notin WalletOpts}
      /\ \A i \in DOMAIN rest : rest[i] = pinned[i]
  BY WithoutIs
<1> HIDE DEF own, pinned, rest, n
<1>6. \A i \in DOMAIN rest : i \in Nat /\ 0 < i /\ i <= n + 3
  BY <1>1, <1>3, <1>4, <1>5
<1>7. /\ DOMAIN last = DOMAIN rest \cup {(n + 3) + 1} /\ last[(n + 3) + 1] = Opt("disablewallet", 1)
      /\ \A i \in DOMAIN rest : last[i] = rest[i]
  <2>1. n + 3 \in Nat
    BY <1>1
  <2>2. Extends(last, rest, (n + 3) + 1, Opt("disablewallet", 1))
    BY <1>6, <2>1, AppendOne, Zenon
  <2> HIDE DEF last
  <2> QED
    BY <2>2 DEF Extends
<1> HIDE DEF last
<1>8. /\ {n + 1, n + 2, n + 3} \subseteq DOMAIN rest
      /\ \A i \in DOMAIN own : args[i].name \notin WalletOpts => i \in DOMAIN rest
  BY <1>2, <1>4, <1>5 DEF WalletOpts, Opt, Word
<1>9. Hardened(pinned, args) /\ \A i \in DOMAIN pinned : i \in Nat \ {0} /\ i <= n + 4
  <2>1. \A i \in DOMAIN pinned : At(pinned, args, i) /\ i \in Nat \ {0} /\ i <= n + 4
    BY <1>1, <1>2, <1>3, <1>4 DEF At, n
  <2>2. \A k \in 1..3 : n + k \in DOMAIN pinned
    BY <1>1, <1>4
  <2>3. \A i \in DOMAIN args : args[i].name \notin RpcBindOpts \cup WalletOpts => i \in DOMAIN pinned
    BY <1>2, <1>4
  <2> QED
    BY <2>1, <2>2, <2>3 DEF Hardened, n
<1>10. Hardened(last, args) /\ \A i \in DOMAIN last : i \in Nat \ {0} /\ i <= n + 4
  <2>1. ASSUME NEW i \in DOMAIN last PROVE At(last, args, i) /\ i \in Nat \ {0} /\ i <= n + 4
    <3>1. CASE i \in DOMAIN rest
      <4>1. last[i] = pinned[i] /\ At(pinned, args, i) /\ i \in Nat \ {0} /\ i <= n + 4
        BY <1>5, <1>7, <1>9, <3>1 DEF Hardened
      <4> QED
        BY <4>1 DEF At
    <3>2. CASE i = (n + 3) + 1
      <4>1. i = n + 4 /\ i \in Nat /\ last[i] = Opt("disablewallet", 1)
        BY <1>1, <1>7, <3>2
      <4> QED
        BY <1>1, <4>1 DEF At, n
    <3> QED
      BY <1>7, <3>1, <3>2
  <2>2. \A k \in 1..3 : n + k \in DOMAIN last
    BY <1>1, <1>7, <1>8
  <2>3. \A i \in DOMAIN args : args[i].name \notin RpcBindOpts \cup WalletOpts => i \in DOMAIN last
    BY <1>2, <1>7, <1>8
  <2> QED
    BY <2>1, <2>2, <2>3 DEF Hardened, n
<1> QED
  BY <1>9, <1>10 DEF harden_service_args, own, pinned, rest, last, n

\* What the environment file holds for any configuration.
LEMMA RenderIs ==
  ASSUME NEW c \in Configs
  PROVE  Hardened(Render(c), c.args) /\ \A i \in DOMAIN Render(c) : i \in Nat \ {0}
<1> DEFINE args == c.args
           h == harden_service_args(args, c.disableWallet)
           m == Len(args) + 4
           t == AppendAt(h, m, <<Opt("rpcpassword", c.password)>>)
<1>1. args \in Seq({args[i] : i \in DOMAIN args})
  BY ConfigsAssumption, Zenon
<1>2. Hardened(h, args) /\ \A i \in DOMAIN h : i \in Nat \ {0} /\ i <= m
  BY <1>1, HardenIs
<1>3. m \in Nat /\ m + 1 = Len(args) + 5
  BY <1>1
<1> HIDE DEF h, args, m
<1>4. \A i \in DOMAIN h : i \in Nat /\ i <= m
  BY <1>2
<1>5. /\ DOMAIN t = DOMAIN h \cup {m + 1} /\ t[m + 1] = Opt("rpcpassword", c.password)
      /\ \A i \in DOMAIN h : t[i] = h[i]
  <2>1. Extends(t, h, m + 1, Opt("rpcpassword", c.password))
    BY <1>3, <1>4, AppendOne, Zenon
  <2> HIDE DEF t
  <2> QED
    BY <2>1 DEF Extends
<1> HIDE DEF t
<1>6. ASSUME NEW i \in DOMAIN t PROVE At(t, args, i)
  <2>1. CASE i \in DOMAIN h
    <3>1. t[i] = h[i] /\ At(h, args, i)
      BY <1>2, <1>5, <2>1 DEF Hardened
    <3> QED
      BY <3>1 DEF At
  <2>2. CASE i = m + 1
    <3>1. t[i].name = "rpcpassword" /\ t[i].how = "plain" /\ i = Len(args) + 5 /\ i \in Nat
      BY <1>3, <1>5, <2>2 DEF Opt, Word
    <3> QED
      BY <3>1 DEF At
  <2> QED
    BY <1>5, <2>1, <2>2
<1>7. Hardened(t, args) /\ \A i \in DOMAIN t : i \in Nat \ {0}
  BY <1>2, <1>3, <1>5, <1>6 DEF Hardened
<1>8. Render(c) = h \/ Render(c) = t
  BY Zenon DEF Render, t, h, m, args
<1> QED
  BY <1>2, <1>7, <1>8, Zenon DEF args

\* What a node goes by that was started from such a file.
LEMMA StartedIs ==
  ASSUME NEW c \in Configs, NEW conf \in ConfFiles
  PROVE  Hardened(Started(conf, Render(c)), c.args)
<1> DEFINE args == c.args
           e == Render(c)
           t == Started(conf, e)
<1>1. Hardened(e, args) /\ \A i \in DOMAIN e : i \in Nat \ {0}
  BY RenderIs
<1>2. \A i \in DOMAIN conf : i \in Int /\ i <= 0 /\ conf[i].how = "conf"
  BY ConfFilesAssumption, Zenon
<1> HIDE DEF args, e
<1>3. /\ DOMAIN t = DOMAIN conf \cup DOMAIN e
      /\ \A i \in DOMAIN e : t[i] = e[i]
      /\ \A i \in DOMAIN conf : t[i] = conf[i]
  BY <1>1, <1>2 DEF Started
<1> HIDE DEF t
<1>4. ASSUME NEW i \in DOMAIN t PROVE At(t, args, i)
  <2>1. CASE i \in DOMAIN e
    <3>1. t[i] = e[i] /\ At(e, args, i)
      BY <1>1, <1>3, <2>1 DEF Hardened
    <3> QED
      BY <3>1 DEF At
  <2>2. CASE i \in DOMAIN conf
    BY <1>2, <1>3, <2>2 DEF At
  <2> QED
    BY <1>3, <2>1, <2>2
<1>5. Hardened(t, args)
  BY <1>1, <1>3, <1>4 DEF Hardened
<1> QED
  BY <1>5 DEF t, e, args

\* The position that all others are before is the last.
LEMMA LastIs ==
  ASSUME NEW S \in SUBSET Nat, NEW k \in S, \A i \in S : i <= k
  PROVE  Max(S) = k
<1>1. k \in Nat /\ S # {}
  OBVIOUS
<1>2. Max(S) \in S /\ \A i \in S : i <= Max(S)
  BY <1>1, LastPosition
<1>3. Max(S) \in Nat /\ k <= Max(S) /\ Max(S) <= k
  BY <1>2
<1> QED
  BY <1>1, <1>3

\* What a hardened line has of the pinned names apart from bitcoin.conf: the
\* pins, and before them what was in quotes.
LEMMA PinsAre ==
  ASSUME NEW args, args \in Seq({args[i] : i \in DOMAIN args}), NEW t, Hardened(t, args)
  PROVE  LET n == Len(args)
         IN  /\ n \in Nat
             /\ n + 1 \in DOMAIN t /\ t[n + 1] = Opt("rpcbind", "127.0.0.1")
             /\ n + 2 \in DOMAIN t /\ t[n + 2] = Opt("rpcbind", "[::1]")
             /\ n + 3 \in DOMAIN t /\ t[n + 3] = Opt("rpcport", BITCOIND_RPC_PORT)
             /\ \A i \in DOMAIN t : t[i].name \in RpcBindOpts /\ t[i].how # "conf" =>
                  i \in Nat /\ ((i <= n /\ t[i].how = "quoted") \/ i \in {n + 1, n + 2, n + 3})
<1> DEFINE n == Len(args)
<1>1. n \in Nat /\ n + 1 \in DOMAIN t /\ n + 2 \in DOMAIN t /\ n + 3 \in DOMAIN t
  BY DEF Hardened
<1>2. /\ t[n + 1] = Opt("rpcbind", "127.0.0.1") /\ t[n + 2] = Opt("rpcbind", "[::1]")
      /\ t[n + 3] = Opt("rpcport", BITCOIND_RPC_PORT)
  <2>1. At(t, args, n + 1) /\ At(t, args, n + 2) /\ At(t, args, n + 3)
    BY <1>1 DEF Hardened
  <2> QED
    BY <1>1, <2>1 DEF At
<1>3. ASSUME NEW i \in DOMAIN t, t[i].name \in RpcBindOpts, t[i].how # "conf"
      PROVE  i \in Nat /\ ((i <= n /\ t[i].how = "quoted") \/ i \in {n + 1, n + 2, n + 3})
  <2>1. At(t, args, i)
    BY DEF Hardened
  <2> QED
    BY <1>1, <1>3, <2>1 DEF At, RpcBindOpts, Opt, Word
<1> QED
  BY <1>1, <1>2, <1>3

\* The -rpcport of a hardened line: the pinned one is the last.
LEMMA PortPinned ==
  ASSUME NEW args, args \in Seq({args[i] : i \in DOMAIN args}), NEW t, Hardened(t, args),
         NEW S \in SUBSET DOMAIN t, Len(args) + 3 \in S,
         \A i \in S : t[i].name = "rpcport" /\ t[i].how # "conf"
  PROVE  S # {} /\ Max(S) = Len(args) + 3 /\ ~t[Max(S)].negated /\ t[Max(S)].value = BITCOIND_RPC_PORT
<1> DEFINE n == Len(args)
<1>1. n \in Nat /\ t[n + 3] = Opt("rpcport", BITCOIND_RPC_PORT)
  BY PinsAre
<1>2. \A i \in S : i \in Nat /\ (i <= n \/ i \in {n + 1, n + 2, n + 3})
  BY PinsAre DEF RpcBindOpts
<1> HIDE DEF n
<1>3. S \in SUBSET Nat /\ n + 3 \in S /\ \A i \in S : i <= n + 3
  BY <1>1, <1>2 DEF n
<1>4. Max(S) = n + 3
  BY <1>3, LastIs
<1>5. ~t[n + 3].negated /\ t[n + 3].value = BITCOIND_RPC_PORT
  BY <1>1 DEF Opt, Word
<1> QED
  BY <1>3, <1>4, <1>5 DEF n

\* bitcoind takes the pinned port.
LEMMA RpcPortIs ==
  ASSUME NEW args, args \in Seq({args[i] : i \in DOMAIN args}), NEW t, Hardened(t, args),
         "rpcport" \notin Sets(t, "conf")
  PROVE  RpcPort(t) = BITCOIND_RPC_PORT
<1> DEFINE all == Named(t, "rpcport")
<1>1. Len(args) + 3 \in DOMAIN t /\ t[Len(args) + 3] = Opt("rpcport", BITCOIND_RPC_PORT)
  BY PinsAre
<1>2. Len(args) + 3 \in all
  BY <1>1 DEF Named, Opt, Word
<1>3. all \in SUBSET DOMAIN t /\ \A i \in all : t[i].name = "rpcport" /\ t[i].how # "conf"
  BY DEF Named, Sets
<1> HIDE DEF all
<1>4. all # {} /\ ~t[Max(all)].negated /\ t[Max(all)].value = BITCOIND_RPC_PORT
  BY <1>2, <1>3, PortPinned
<1>5. \A default : Single(t, "rpcport", default) = BITCOIND_RPC_PORT
  BY <1>4, Zenon DEF Single, all
<1> QED
  BY <1>5 DEF RpcPort

\* How bitcoind reads a hardened line: it binds both loopback addresses and
\* admits nobody else.
LEMMA HardenedListens ==
  ASSUME NEW args, args \in Seq({args[i] : i \in DOMAIN args}), NEW t, Hardened(t, args),
         Sets(t, "conf") \cap RpcBindOpts = {}, Sets(t, "quoted") \cap RpcBindOpts = {}
  PROVE  List(t, "rpcbind") = Loopback /\ List(t, "rpcallowip") = {}
<1> DEFINE n == Len(args)
<1>1. /\ n \in Nat
      /\ n + 1 \in DOMAIN t /\ t[n + 1] = Opt("rpcbind", "127.0.0.1")
      /\ n + 2 \in DOMAIN t /\ t[n + 2] = Opt("rpcbind", "[::1]")
      /\ n + 3 \in DOMAIN t /\ t[n + 3] = Opt("rpcport", BITCOIND_RPC_PORT)
  BY PinsAre
<1>2. \A i \in DOMAIN t : t[i].name \in RpcBindOpts => i \in {n + 1, n + 2, n + 3}
  BY PinsAre DEF Sets
<1> HIDE DEF n
<1>3. Named(t, "rpcbind") = {n + 1, n + 2}
  BY <1>1, <1>2 DEF Named, Opt, Word, RpcBindOpts
<1>4. Named(t, "rpcallowip") = {}
  BY <1>1, <1>2 DEF Named, Opt, Word, RpcBindOpts
<1>5. {k \in {n + 1, n + 2} : \A m \in {n + 1, n + 2} : m >= k => ~t[m].negated} = {n + 1, n + 2}
  BY <1>1 DEF Opt, Word
<1>6. t[n + 1].value = "127.0.0.1" /\ t[n + 2].value = "[::1]"
  BY <1>1 DEF Opt, Word
<1>7. {t[i].value : i \in {n + 1, n + 2}} = {t[n + 1].value, t[n + 2].value}
  OBVIOUS
<1>8. List(t, "rpcbind") = Loopback
  BY <1>3, <1>5, <1>6, <1>7, Zenon DEF List, Loopback
<1>9. List(t, "rpcallowip") = {}
  BY <1>4 DEF List
<1> QED
  BY <1>8, <1>9

\* Hardening leaves -port alone, and its last occurrence is not a negation.
LEMMA PortIs ==
  ASSUME NEW c \in Configs, NEW t, Hardened(t, c.args), "port" \notin Sets(t, "conf")
  PROVE  LET all == Named(t, "port")
         IN  /\ all \subseteq Nat
             /\ all # {} => Max(all) \in all /\ ~t[Max(all)].negated /\ \A i \in all : i <= Max(all)
<1> DEFINE args == c.args
           all == Named(args, "port")
<1>1. args \in Seq({args[i] : i \in DOMAIN args}) /\ Single(args, "port", 1) # 0
  BY ConfigsAssumption, Zenon
<1> HIDE DEF args
<1>2. \A i \in DOMAIN args : i \in Nat /\ 0 < i /\ i <= Len(args) /\ Len(args) \in Nat
  BY <1>1
<1>3. \A i \in all : i \in DOMAIN t /\ t[i] = args[i] /\ t[i].name = "port"
  <2> SUFFICES ASSUME NEW i \in all PROVE i \in DOMAIN t /\ t[i] = args[i] /\ t[i].name = "port"
    OBVIOUS
  <2>1. i \in DOMAIN args /\ args[i].name = "port"
    BY DEF Named
  <2>2. i \in DOMAIN t
    BY <2>1 DEF Hardened, RpcBindOpts, WalletOpts, args
  <2>3. At(t, args, i) /\ i \in Nat /\ 0 < i /\ i <= Len(args) /\ Len(args) \in Nat
    BY <1>2, <2>1, <2>2 DEF Hardened, args
  <2> QED
    BY <2>1, <2>2, <2>3 DEF At
<1>4. \A i \in Named(t, "port") : i \in all
  <2> SUFFICES ASSUME NEW i \in Named(t, "port") PROVE i \in all
    OBVIOUS
  <2>1. At(t, args, i) /\ t[i].name = "port" /\ t[i].how \notin {"inside", "conf"}
    BY DEF Hardened, Named, Sets, args
  <2> QED
    BY <2>1 DEF At, Named, Opt, Word
<1>5. Named(t, "port") = all
  BY <1>3, <1>4 DEF Named
<1>6. all \subseteq Nat
  BY <1>2 DEF Named
<1>7. ASSUME all # {} PROVE Max(all) \in all /\ ~t[Max(all)].negated /\ \A i \in all : i <= Max(all)
  <2>1. PICK k \in all : k \in DOMAIN args
    BY <1>7 DEF Named
  <2>2. Len(args) \in Nat /\ \A i \in all : i <= Len(args)
    BY <1>2, <2>1 DEF Named
  <2>3. Max(all) \in all /\ \A i \in all : i <= Max(all)
    BY <1>6, <1>7, <2>2, LastPosition
  <2>4. ~args[Max(all)].negated
    BY <1>1, <1>7, Zenon DEF Single
  <2> QED
    BY <1>3, <2>3, <2>4
<1> HIDE DEF all
<1> QED
  BY <1>5, <1>6, <1>7

-----------------------------------------------------------------------------
(* The document.                                                           *)

EnvLines == {Render(c) : c \in Configs}
Lines == {Started(conf, e) : conf \in ConfFiles, e \in EnvLines}

\* A line that the node goes by was hardened from some configuration.
LEMMA LinesHardened ==
  ASSUME NEW t \in Lines
  PROVE  \E c \in Configs : Hardened(t, c.args) /\ c.args \in Seq({c.args[i] : i \in DOMAIN c.args})
<1>1. PICK conf \in ConfFiles, c \in Configs : t = Started(conf, Render(c))
  BY DEF Lines, EnvLines
<1>2. Hardened(t, c.args)
  BY <1>1, StartedIs
<1>3. c.args \in Seq({c.args[i] : i \in DOMAIN c.args})
  BY ConfigsAssumption, Zenon
<1> QED
  BY <1>2, <1>3

\* The flags of the command line give the ports that bitcoind itself uses.
LEMMA FlagsTellPorts ==
  ASSUME NEW t \in Lines, flags = parse_effective_flags(t), NEW network
  PROVE  /\ "port" \notin Sets(t, "conf") \cup Sets(t, "inside") =>
              _first_flag("port", network.p2p) = Single(t, "port", network.p2p)
         /\ _first_flag("rpcport", network.rpc) = BITCOIND_RPC_PORT
<1>1. PICK c \in Configs : Hardened(t, c.args) /\ c.args \in Seq({c.args[i] : i \in DOMAIN c.args})
  BY LinesHardened
<1> DEFINE args == c.args
           all == Named(t, "port")
           values == Positive("port")
<1>2. Hardened(t, args) /\ args \in Seq({args[i] : i \in DOMAIN args})
  BY <1>1
<1>3. /\ DOMAIN flags = {i \in DOMAIN t : t[i].how # "conf" /\ t[i].name \notin SensitiveOpts}
      /\ \A i \in DOMAIN flags : flags[i] = t[i]
  <2> DEFINE fs == parse_effective_flags(t)
  <2>1. /\ DOMAIN fs = {i \in DOMAIN t : t[i].how # "conf" /\ t[i].name \notin SensitiveOpts}
        /\ \A i \in DOMAIN fs : fs[i] = t[i]
    BY DEF parse_effective_flags, Restrict
  <2> HIDE DEF fs
  <2>2. flags = fs
    BY DEF fs
  <2> QED
    BY <2>1, <2>2, Zenon
<1>4. ASSUME "port" \notin Sets(t, "conf") \cup Sets(t, "inside")
      PROVE  _first_flag("port", network.p2p) = Single(t, "port", network.p2p)
  <2>1. /\ all \subseteq Nat
        /\ all # {} => Max(all) \in all /\ ~t[Max(all)].negated /\ \A i \in all : i <= Max(all)
    BY <1>2, <1>4, PortIs
  <2>2. values = {i \in all : ~t[i].negated} /\ \A i \in all : flags[i] = t[i]
    BY <1>3, <1>4 DEF Positive, Named, Sets, SensitiveOpts
  <2> HIDE DEF all, values
  <2>3. CASE all = {}
    <3>1. values = {}
      BY <2>2, <2>3
    <3> QED
      BY <2>3, <3>1, Zenon DEF _first_flag, Single, all, values
  <2>4. CASE all # {}
    <3>1. values \in SUBSET Nat /\ Max(all) \in values /\ \A i \in values : i <= Max(all)
      BY <2>1, <2>2, <2>4
    <3>2. Max(values) = Max(all)
      BY <3>1, LastIs
    <3>3. values # {} /\ flags[Max(values)].value = t[Max(all)].value /\ ~t[Max(all)].negated
      BY <2>1, <2>2, <2>4, <3>1, <3>2
    <3> QED
      BY <2>4, <3>3, Zenon DEF _first_flag, Single, all, values
  <2> QED
    BY <2>3, <2>4
<1>5. _first_flag("rpcport", network.rpc) = BITCOIND_RPC_PORT
  <2> DEFINE n == Len(args)
             ports == Positive("rpcport")
  <2>1. n + 3 \in DOMAIN t /\ t[n + 3] = Opt("rpcport", BITCOIND_RPC_PORT)
    BY <1>2, PinsAre
  <2>2. n + 3 \in DOMAIN flags /\ flags[n + 3] = t[n + 3]
    BY <1>3, <2>1 DEF SensitiveOpts, Opt, Word
  <2>3. n + 3 \in ports
    BY <2>1, <2>2 DEF Positive, Opt, Word
  <2>4. /\ ports \in SUBSET DOMAIN t /\ ports \subseteq DOMAIN flags
        /\ \A i \in ports : t[i].name = "rpcport" /\ t[i].how # "conf"
    BY <1>3 DEF Positive
  <2> HIDE DEF ports
  <2>5. ports # {} /\ Max(ports) = n + 3 /\ t[Max(ports)].value = BITCOIND_RPC_PORT
    BY <1>2, <2>3, <2>4, PortPinned
  <2>6. flags[Max(ports)].value = BITCOIND_RPC_PORT
    BY <1>3, <2>3, <2>4, <2>5
  <2> QED
    BY <2>5, <2>6, Zenon DEF _first_flag, ports
<1> QED
  BY <1>4, <1>5

\* A document of line t that bitcoind would agree with.
Describes(d, t) ==
    /\ d.chain = Chain(t)
    /\ "rpcport" \notin Sets(t, "conf") => d.rpc_internal = RpcPort(t)
    /\ "port" \notin Sets(t, "conf") \cup Sets(t, "inside") => d.p2p = P2pPort(t)

\* build_runtime_metadata makes such a document of an answer and of flags that
\* belong to one line.
LEMMA BuildDescribes ==
  ASSUME NEW t \in Lines, flags = parse_effective_flags(t), chain = Chain(t)
  PROVE  Describes(build_runtime_metadata, t)
<1> DEFINE d == build_runtime_metadata
<1>1. /\ "port" \notin Sets(t, "conf") \cup Sets(t, "inside") =>
           _first_flag("port", Networks[chain].p2p) = Single(t, "port", Networks[chain].p2p)
      /\ _first_flag("rpcport", Networks[chain].rpc) = BITCOIND_RPC_PORT
  BY FlagsTellPorts
<1>2. "rpcport" \notin Sets(t, "conf") => RpcPort(t) = BITCOIND_RPC_PORT
  BY LinesHardened, RpcPortIs
<1>3. /\ d.chain = chain
      /\ d.p2p = _first_flag("port", Networks[chain].p2p)
      /\ d.rpc_internal = _first_flag("rpcport", Networks[chain].rpc)
  BY DEF build_runtime_metadata
<1> HIDE DEF d
<1>4. Describes(d, t)
  BY <1>1, <1>2, <1>3, Zenon DEF Describes, P2pPort
<1> QED
  BY <1>4 DEF d

-----------------------------------------------------------------------------
(* The invariant.                                                          *)

\* systemd starts the node from a generation of the environment file.
NodeInv == config \in Configs /\ env \in EnvLines /\ node \in Lines \cup {Down}

\* What a collection of a node that has run throughout has found so far.
Asked == pc = "rpc" /\ calls >= 2
CollectInv ==
    /\ calls \in Nat /\ same \in BOOLEAN
    /\ pc = "secret" => calls = 0
    /\ pc = "rpc" => calls <= 3
    /\ same => /\ of = node /\ of \in Lines
               /\ Asked \/ pc \in {"cmdline", "limits", "write"} => chain = Chain(of)
               /\ pc \in {"limits", "write"} => flags = parse_effective_flags(of)

DocInv == \A d \in {doc, uploaded} : d.same => Describes(d, d.of)

IInv == NodeInv /\ CollectInv /\ DocInv

\* No command line that the charm renders is empty.
LEMMA LinesUp == \A t \in Lines : t # Down
<1> SUFFICES ASSUME NEW t \in Lines PROVE t # Down
  OBVIOUS
<1>1. PICK c \in Configs : Hardened(t, c.args) /\ c.args \in Seq({c.args[i] : i \in DOMAIN c.args})
  BY LinesHardened
<1>2. DOMAIN t # {}
  BY <1>1, PinsAre
<1>3. DOMAIN Down = {}
  BY DEF Down
<1> QED
  BY <1>2, <1>3

\* A step of the collection ends it or goes on.
HasEnded == pc' = "idle" /\ calls' = 0 /\ same' = FALSE
GoesOn(from, to) == pc = from /\ pc' = to /\ UNCHANGED collection

\* A collection that has ended holds nothing.
LEMMA Ended ==
  ASSUME NEW how, Ends(how)
  PROVE  HasEnded
BY Zenon DEF Ends, HasEnded

\* Only the operator, the hook and systemd change what the node runs on.
LEMMA NodeStep ==
  ASSUME NodeInv, [Next]_vars
  PROVE  NodeInv'
<1>1. CASE SetConfig
  BY <1>1 DEF SetConfig, NodeInv
<1>2. CASE WriteEnv
  BY <1>2 DEF WriteEnv, NodeInv, EnvLines
<1>3. CASE NodeDies
  BY <1>3 DEF NodeDies, NodeInv
<1>4. CASE NodeStarts
  BY <1>4 DEF NodeStarts, NodeInv, Lines
<1>5. CASE UNCHANGED <<config, env, node>>
  BY <1>5 DEF NodeInv
<1>6. CASE Collect \/ NotReady \/ Step \/ UNCHANGED vars
  <2>1. UNCHANGED <<config, env, node>>
    BY <1>6, Zenon DEF Collect, NotReady, Step, ParseSecret, RpcReturns, RpcFails, ReadCmdline, Limits, Write,
       WriteFails, Upload, vars
  <2> QED
    BY <1>5, <2>1
<1> QED
  BY <1>1, <1>2, <1>3, <1>4, <1>6, Zenon DEF Next

\* Answer and command line are of the node that the collection began with, as
\* long as that node has run throughout.
LEMMA CollectStep ==
  ASSUME NodeInv, CollectInv, [Next]_vars
  PROVE  CollectInv'
<1>1. CASE UNCHANGED <<node, pc, collection>>
  BY <1>1 DEF CollectInv, Asked, collection
<1>2. CASE SetConfig \/ WriteEnv \/ NotReady \/ UNCHANGED vars
  <2>1. UNCHANGED <<node, pc, collection>>
    BY <1>2, Zenon DEF SetConfig, WriteEnv, NotReady, vars
  <2> QED
    BY <1>1, <2>1
<1>3. CASE NodeDies
  BY <1>3 DEF NodeDies, CollectInv, Asked
<1>4. CASE NodeStarts
  <2>1. ~same
    BY <1>4, LinesUp DEF NodeStarts, CollectInv
  <2> QED
    BY <1>4, <2>1 DEF NodeStarts, CollectInv, Asked, collection
<1>5. CASE Collect
  <2>1. node \in Lines
    BY <1>5 DEF Collect, Answers, NodeInv
  <2> QED
    BY <1>5, <2>1 DEF Collect, CollectInv, Asked
<1>6. ASSUME HasEnded PROVE CollectInv'
  BY <1>6 DEF HasEnded, CollectInv, Asked
<1>7. CASE ParseSecret
  <2>1. HasEnded \/ (GoesOn("secret", "rpc") /\ UNCHANGED node)
    BY <1>7, Ended, Zenon DEF ParseSecret, GoesOn, Goto
  <2> QED
    BY <1>6, <2>1 DEF GoesOn, CollectInv, Asked, collection
<1>8. CASE RpcReturns
  <2>1. /\ pc = "rpc" /\ calls' = calls + 1 /\ UNCHANGED <<node, flags, of, same>>
        /\ chain' = IF Methods[calls'] = "getblockchaininfo" THEN Chain(node) ELSE chain
        /\ pc' = IF calls' = Len(Methods) THEN "cmdline" ELSE pc
    BY <1>8 DEF RpcReturns
  <2>2. calls \in {0, 1, 2, 3}
    BY <2>1 DEF CollectInv
  <2>3. Len(Methods) = 4 /\ Methods[1] # "getblockchaininfo" /\ Methods[2] = "getblockchaininfo"
    BY DEF Methods
  <2>4. calls' >= 2 /\ same => chain' = Chain(of)
    <3>1. CASE calls = 0
      BY <2>1, <3>1
    <3>2. CASE calls = 1
      BY <2>1, <2>3, <3>2 DEF CollectInv
    <3>3. CASE calls \in {2, 3}
      BY <2>1, <3>3 DEF CollectInv, Asked
    <3> QED
      BY <2>2, <3>1, <3>2, <3>3
  <2> QED
    BY <2>1, <2>2, <2>3, <2>4 DEF CollectInv, Asked
<1>9. CASE RpcFails
  <2>1. HasEnded
    BY <1>9, Ended, Zenon DEF RpcFails
  <2> QED
    BY <1>6, <2>1
<1>10. CASE ReadCmdline
  <2>1. same => node # Down
    BY LinesUp DEF CollectInv
  <2> QED
    BY <1>10, <2>1 DEF ReadCmdline, CollectInv, Asked
<1>11. CASE Limits
  <2>1. HasEnded \/ (GoesOn("limits", "write") /\ UNCHANGED node)
    BY <1>11, Ended, Zenon DEF Limits, GoesOn, Goto
  <2> QED
    BY <1>6, <2>1 DEF GoesOn, CollectInv, Asked, collection
<1>12. CASE Write
  <2>1. HasEnded \/ (GoesOn("write", "upload") /\ UNCHANGED node)
    BY <1>12, Ended, Zenon DEF Write, GoesOn, Goto
  <2> QED
    BY <1>6, <2>1 DEF GoesOn, CollectInv, Asked, collection
<1>13. CASE WriteFails \/ Upload
  <2>1. HasEnded
    BY <1>13, Ended, Zenon DEF WriteFails, Upload
  <2> QED
    BY <1>6, <2>1
<1> QED
  BY <1>2, <1>3, <1>4, <1>5, <1>7, <1>8, <1>9, <1>10, <1>11, <1>12, <1>13, Zenon DEF Next, Step

\* A document is written of a whole collection, and uploaded as it was written.
LEMMA DocStep ==
  ASSUME NodeInv, CollectInv, DocInv, [Next]_vars
  PROVE  DocInv'
<1>1. CASE Write
  <2>1. pc = "write" /\ doc' = build_runtime_metadata /\ uploaded' = uploaded
    BY <1>1, Zenon DEF Write
  <2>2. doc'.same = same /\ doc'.of = of
    BY <2>1 DEF build_runtime_metadata
  <2>3. same => Describes(build_runtime_metadata, of)
    BY <2>1, BuildDescribes DEF CollectInv
  <2>4. doc'.same => Describes(doc', doc'.of)
    BY <2>1, <2>2, <2>3, Zenon
  <2>5. uploaded'.same => Describes(uploaded', uploaded'.of)
    BY <2>1, Zenon DEF DocInv
  <2> QED
    BY <2>4, <2>5, Zenon DEF DocInv
<1>2. CASE ~Write
  <2>1. doc' = doc /\ uploaded' \in {uploaded, doc}
    BY <1>2, Zenon DEF Next, SetConfig, WriteEnv, NodeDies, NodeStarts, Collect, NotReady, Step, ParseSecret,
       RpcReturns, RpcFails, ReadCmdline, Limits, WriteFails, Upload, vars, documents
  <2> QED
    BY <2>1, Zenon DEF DocInv
<1> QED
  BY <1>1, <1>2

-----------------------------------------------------------------------------
(* The theorems.                                                           *)

\* The inductive invariant: the node runs a hardened line, and what has been
\* collected of it is of that line.
THEOREM Invariance == Spec => []IInv
<1>1. Init => IInv
  <2> SUFFICES ASSUME Init PROVE IInv
    OBVIOUS
  <2>1. NodeInv
    BY DEF Init, NodeInv, Lines, EnvLines
  <2>2. CollectInv
    BY DEF Init, CollectInv, Asked
  <2>3. DocInv
    BY DEF Init, DocInv, NoDocument
  <2> QED
    BY <2>1, <2>2, <2>3 DEF IInv
<1>2. IInv /\ [Next]_vars => IInv'
  BY NodeStep, CollectStep, DocStep DEF IInv
<1> QED
  BY <1>1, <1>2, PTL DEF Spec

\* harden_service_args and update_service_args: for any service-args, any
\* sequence of changes and restarts, the node uses the port that proxy, monitor
\* and collector dial, and listens on loopback only as long as no option of the
\* operator's is hidden in quotes or comes from bitcoin.conf.
THEOREM ListensWhereDialledHolds == Spec => []ListensWhereDialled
<1>1. IInv => ListensWhereDialled
  <2> SUFFICES ASSUME IInv, node # Down, Sets(node, "conf") \cap RpcBindOpts = {}
               PROVE  /\ RpcPort(node) = BITCOIND_RPC_PORT
                      /\ Sets(node, "quoted") \cap RpcBindOpts = {} =>
                           List(node, "rpcbind") = Loopback /\ List(node, "rpcallowip") = {}
    BY DEF ListensWhereDialled
  <2>1. PICK c \in Configs : Hardened(node, c.args) /\ c.args \in Seq({c.args[i] : i \in DOMAIN c.args})
    BY LinesHardened DEF IInv, NodeInv
  <2>2. "rpcport" \notin Sets(node, "conf")
    BY DEF RpcBindOpts
  <2> QED
    BY <2>1, <2>2, RpcPortIs, HardenedListens
<1> QED
  BY <1>1, Invariance, PTL

\* collect_upload_metadata: a document of a node that ran throughout describes
\* that node as bitcoind reads its own arguments, whatever they repeat, negate
\* or override, and however the environment file has changed since; except for
\* a port that bitcoin.conf sets or that is named inside a quoted argument.
THEOREM DescribesNodeHolds == Spec => []DescribesNode
<1>1. IInv => DescribesNode
  BY DEF IInv, DocInv, Describes, DescribesNode
<1> QED
  BY <1>1, Invariance, PTL
=============================================================================
