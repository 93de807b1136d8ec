---------------------------- MODULE NodeMetadata ----------------------------
(***************************************************************************)
(* What bitcoind is told and what the charm reports of it: the hardened    *)
(* service arguments (utils.harden_service_args, update_service_args), the *)
(* node that systemd starts from the environment file, and the collection  *)
(* of metadata (bitcoin_metadata.py) that asks the node over RPC, reads    *)
(* its command line afterwards, writes a document and uploads it, while    *)
(* the node may die and be started again at any point.                     *)
(*                                                                         *)
(* The arguments are text, which is cut up three times: by split() when    *)
(* the charm hardens it, by systemd, which takes quotes into account, and  *)
(* by shlex, after the charm has joined the arguments of the process with  *)
(* spaces.  A word is what split() finds, as a record: -rpcport=1 is       *)
(* Opt("rpcport", 1) and -norpcport its negation; how says what the quotes *)
(* around it do.  Quotes are balanced.                                     *)
(*   plain   the same option each time;                                    *)
(*   quoted  begins with a quote or a backslash that systemd removes:      *)
(*           _opt_name does not recognise the option, bitcoind does;       *)
(*   inside  part of a longer quoted argument, like -port=1 in             *)
(*           -blocknotify='cmd -port=1 %s': an option to the charm, at     *)
(*           both ends, and none to bitcoind;                              *)
(*   conf    not an argument but a setting in bitcoin.conf.                *)
(* A line is a function from positions to words; where a word was dropped  *)
(* its position is empty.  Settings of bitcoin.conf are at positions up to *)
(* 0.  Redaction of text is left out.                                      *)
(***************************************************************************)
EXTENDS Integers, Sequences, FiniteSetsExt

CONSTANTS
    Configs,    \* configurations: service-args as a sequence of words,
                \* disable-wallet, rpc-user and rpc-password as one value,
                \* collector-s3-credentials
    ConfFiles,  \* what bitcoin.conf may hold
    MaxChanges, \* bound on changes of the configuration
    MaxFaults   \* bound on deaths of the node and failing commands

Word(name, negated, value, how) == [name |-> name, negated |-> negated, value |-> value, how |-> how]
Opt(name, value) == Word(name, FALSE, value, "plain")
No(name) == Word(name, TRUE, 1, "plain")

Networks == [main |-> [p2p |-> 8333, rpc |-> 8332], regtest |-> [p2p |-> 18444, rpc |-> 18443]]
BITCOIND_RPC_PORT == 8332
Loopback == {"127.0.0.1", "[::1]"}
RpcBindOpts == {"rpcbind", "rpcallowip", "rpcport"}
WalletOpts == {"disablewallet", "wallet"}
SensitiveOpts == {"rpcpassword"}
NoPassword == 0

-----------------------------------------------------------------------------
(* Arguments.                                                              *)

\* The words whose _opt_name, which drops dashes, "no" and the value but no
\* quotes, is not one of names.
Without(words, names) ==
    Restrict(words, {i \in DOMAIN words : words[i].how = "quoted" \/ words[i].name \notin names})

\* words with more appended, past position n.
AppendAt(words, n, more) ==
    [i \in DOMAIN words \cup {n + k : k \in DOMAIN more} |->
        IF i \in DOMAIN words THEN words[i] ELSE more[i - n]]

Pins == <<Opt("rpcbind", "127.0.0.1"), Opt("rpcbind", "[::1]"), Opt("rpcport", BITCOIND_RPC_PORT)>>

\* Mutant: the operator's own -rpcbind and -rpcallowip stay.
harden_service_argsKeeping(args, disableWallet) ==
    LET pinned == AppendAt(Without(args, {"rpcport"}), Len(args), Pins)
    IN  IF disableWallet THEN AppendAt(Without(pinned, WalletOpts), Len(args) + 3, <<Opt("disablewallet", 1)>>)
                         ELSE pinned

harden_service_args(args, disableWallet) ==
    LET pinned == AppendAt(Without(args, RpcBindOpts), Len(args), Pins)
    IN  IF disableWallet THEN AppendAt(Without(pinned, WalletOpts), Len(args) + 3, <<Opt("disablewallet", 1)>>)
                         ELSE pinned

\* update_service_args: the credentials, if there are any, come last.
Render(c) ==
    LET hardened == harden_service_args(c.args, c.disableWallet)
    IN  IF c.password = NoPassword THEN hardened
        ELSE AppendAt(hardened, Len(c.args) + 4, <<Opt("rpcpassword", c.password)>>)

\* What bitcoind goes by when it is started with words and finds conf.
Started(conf, words) ==
    [i \in DOMAIN conf \cup DOMAIN words |-> IF i \in DOMAIN words THEN words[i] ELSE conf[i]]

\* How bitcoind reads it: the last setting of a name counts, and a list holds
\* what follows the last negation.
Named(line, name) == {i \in DOMAIN line : line[i].name = name /\ line[i].how # "inside"}
Single(line, name, default) ==
    LET all == Named(line, name)
        last == line[Max(all)]
    IN  IF all = {} THEN default ELSE IF last.negated THEN 0 ELSE last.value
List(line, name) ==
    LET all == Named(line, name)
    IN  {line[i].value : i \in {k \in all : \A n \in all : n >= k => ~line[n].negated}}

Chain(line) == IF Single(line, "regtest", 0) = 1 THEN "regtest" ELSE "main"
RpcPort(line) == Single(line, "rpcport", Networks[Chain(line)].rpc)
P2pPort(line) == Single(line, "port", Networks[Chain(line)].p2p)

ASSUME BoundsAssumption == MaxChanges \in Nat /\ MaxFaults \in Nat

\* bitcoind does not start on port 0, which -noport stands for.  No word of a
\* quoted value has a name that hardening drops: the value would be cut in two.
ASSUME ConfigsAssumption ==
    \A c \in Configs :
        /\ c.args \in Seq({c.args[i] : i \in DOMAIN c.args})
        /\ Single(c.args, "port", 1) # 0
        /\ \A i \in DOMAIN c.args :
             /\ c.args[i].how \in {"plain", "quoted", "inside"}
             /\ c.args[i].how = "inside" => c.args[i].name \notin RpcBindOpts \cup WalletOpts

ASSUME ConfFilesAssumption ==
    \A f \in ConfFiles : \A i \in DOMAIN f : i \in Int /\ i <= 0 /\ f[i].how = "conf"

-----------------------------------------------------------------------------
VARIABLES
    config,   \* the charm's configuration
    env,      \* /etc/default/bitcoind: the arguments in it
    node,     \* the line that the running bitcoind goes by, or Down
    pc,       \* the step that the collection is at, or "idle"
    calls,    \* RPC calls that have returned
    chain,    \* what getblockchaininfo answered
    flags,    \* parse_effective_flags of the command line
    of,       \* history: the node when the collection began
    same,     \* history: that node has run throughout
    doc,      \* the document under METADATA_DIR
    uploaded, \* the document in the bucket
    result,   \* how the last collection ended
    changes, faults

collection == <<calls, chain, flags, of, same>>
documents == <<doc, uploaded>>
vars == <<config, env, node, pc, collection, documents, result, changes, faults>>

Down == <<>>
NoDocument == [of |-> Down, same |-> FALSE, chain |-> "unknown", p2p |-> 0, rpc_internal |-> 0]
Methods == <<"getnetworkinfo", "getblockchaininfo", "getblockhash", "getindexinfo">>

Init ==
    /\ config \in Configs
    /\ env = Render(config)
    /\ \E conf \in ConfFiles : node = Started(conf, env)
    /\ pc = "idle"
    /\ calls = 0 /\ chain = "unknown" /\ flags = <<>> /\ of = Down /\ same = FALSE
    /\ doc = NoDocument /\ uploaded = NoDocument
    /\ result = "none"
    /\ changes = 0 /\ faults = 0

Fault == faults < MaxFaults /\ faults' = faults + 1

-----------------------------------------------------------------------------
(* The operator, the config-changed hook and systemd.                      *)

SetConfig ==
    /\ pc = "idle"
    /\ changes < MaxChanges
    /\ changes' = changes + 1
    /\ config' \in Configs \ {config}
    /\ UNCHANGED <<env, node, pc, collection, documents, result, faults>>

\* update_service_args; whether the node is restarted is up to the caller.
WriteEnv ==
    /\ pc = "idle"
    /\ env # Render(config)
    /\ env' = Render(config)
    /\ UNCHANGED <<config, node, pc, collection, documents, result, changes, faults>>

\* The node crashes, or is stopped to be started again.
NodeDies ==
    /\ node # Down
    /\ Fault
    /\ node' = Down
    /\ same' = FALSE
    /\ UNCHANGED <<config, env, pc, calls, chain, flags, of, documents, result, changes>>

\* systemd starts the node, which reads whatever is in bitcoin.conf by then.
NodeStarts ==
    /\ node = Down
    /\ \E conf \in ConfFiles : node' = Started(conf, env)
    /\ UNCHANGED <<config, env, pc, collection, documents, result, changes, faults>>

-----------------------------------------------------------------------------
(* collect_upload_metadata.                                                *)

\* The node accepts the charm's credentials.
Answers ==
    /\ node # Down
    /\ config.password # NoPassword
    /\ Single(node, "rpcpassword", NoPassword) = config.password

Goto(next) == pc' = next /\ UNCHANGED <<collection, result>>
Ends(how) ==
    /\ pc' = "idle" /\ result' = how
    /\ calls' = 0 /\ chain' = "unknown" /\ flags' = <<>> /\ of' = Down /\ same' = FALSE

\* Mutant: a document that is there is not collected again.
CollectOnce ==
    /\ pc = "idle"
    /\ Answers
    /\ doc = NoDocument
    /\ pc' = "secret"
    /\ calls' = 0 /\ of' = node /\ same' = TRUE
    /\ UNCHANGED <<config, env, node, chain, flags, documents, result, changes, faults>>

\* _update_status found every service up and the node answering.
Collect ==
    /\ pc = "idle"
    /\ Answers
    /\ pc' = "secret"
    /\ calls' = 0 /\ of' = node /\ same' = TRUE
    /\ UNCHANGED <<config, env, node, chain, flags, documents, result, changes, faults>>

\* _update_status found a service down or the node not answering.
NotReady ==
    /\ pc = "idle"
    /\ ~Answers
    /\ result' = "not ready"
    /\ UNCHANGED <<config, env, node, pc, collection, documents, changes, faults>>

ParseSecret ==
    /\ pc = "secret"
    /\ IF config.secret = "invalid" THEN Ends("invalid collector-s3-credentials")
                                    ELSE Goto("rpc")
    /\ UNCHANGED <<config, env, node, documents, changes, faults>>

\* rpc_call of the next method.
RpcReturns ==
    /\ pc = "rpc"
    /\ Answers
    /\ calls' = calls + 1
    /\ chain' = IF Methods[calls'] = "getblockchaininfo" THEN Chain(node) ELSE chain
    /\ pc' = IF calls' = Len(Methods) THEN "cmdline" ELSE pc
    /\ UNCHANGED <<config, env, node, flags, of, same, documents, result, changes, faults>>

\* No connection, an error status, an error answer or a timeout.
RpcFails ==
    /\ pc = "rpc"
    /\ IF Answers THEN Fault ELSE UNCHANGED faults
    /\ Ends("metadata collection failed")
    /\ UNCHANGED <<config, env, node, documents, changes>>

\* What shlex finds in the arguments of the process after they were joined with
\* spaces: the options that bitcoind was given, and those inside its quoted
\* arguments.  (An option takes its value from the next word only if that is no
\* option, which bitcoind accepts only inside a quoted argument.)
parse_effective_flags(line) ==
    Restrict(line, {i \in DOMAIN line : line[i].how # "conf" /\ line[i].name \notin SensitiveOpts})

\* Without a process the collection falls back to get_service_args, which
\* returns NAME="...": one word to shlex, and no option.
ReadCmdline ==
    /\ pc = "cmdline"
    /\ flags' = IF node # Down THEN parse_effective_flags(node) ELSE <<>>
    /\ pc' = "limits"
    /\ UNCHANGED <<config, env, node, calls, chain, of, same, documents, result, changes, faults>>

\* get_systemd_limits; nothing catches the CalledProcessError of systemctl.
Limits ==
    /\ pc = "limits"
    /\ \/ Goto("write") /\ UNCHANGED faults
       \/ Fault /\ Ends("raised")
    /\ UNCHANGED <<config, env, node, documents, changes>>

Positive(name) == {i \in DOMAIN flags : flags[i].name = name /\ ~flags[i].negated}

\* Mutant: the first of several values.
_first_flagFirst(name, default) ==
    LET values == Positive(name) IN IF values = {} THEN default ELSE flags[Min(values)].value

\* _first_flag and _int_flag: the last value of a flag.
_first_flag(name, default) ==
    LET values == Positive(name) IN IF values = {} THEN default ELSE flags[Max(values)].value

build_runtime_metadata ==
    [of |-> of, same |-> same, chain |-> chain,
     p2p |-> _first_flag("port", Networks[chain].p2p),
     rpc_internal |-> _first_flag("rpcport", Networks[chain].rpc)]

\* collect_and_upload writes the document, or refuses it ...
Write ==
    /\ pc = "write"
    /\ doc' = build_runtime_metadata
    /\ IF config.secret = "none" THEN Ends("ok") ELSE Goto("upload")
    /\ UNCHANGED <<config, env, node, uploaded, changes, faults>>

WriteFails ==
    /\ pc = "write"
    /\ Fault
    /\ \E how \in {"metadata collection failed",
                   IF config.secret = "none" THEN "invalid blockchain metadata"
                                             ELSE "invalid collector-s3-credentials"} : Ends(how)
    /\ UNCHANGED <<config, env, node, documents, changes>>

\* ... and uploads it if there are credentials.
Upload ==
    /\ pc = "upload"
    /\ \/ uploaded' = doc /\ Ends("ok") /\ UNCHANGED faults
       \/ Fault /\ Ends("metadata upload failed") /\ UNCHANGED uploaded
    /\ UNCHANGED <<config, env, node, doc, changes>>

Step ==
    \/ ParseSecret \/ RpcReturns \/ RpcFails \/ ReadCmdline \/ Limits
    \/ Write \/ WriteFails \/ Upload

Next == SetConfig \/ WriteEnv \/ NodeDies \/ NodeStarts \/ Collect \/ NotReady \/ Step

Spec == Init /\ [][Next]_vars

\* Hooks go on: update-status comes again and again, a collection ends (each
\* call has a timeout), and systemd starts the node again (Restart=always).
Fairness == WF_vars(Collect) /\ WF_vars(Step) /\ WF_vars(NodeStarts)

FairSpec == Spec /\ Fairness

-----------------------------------------------------------------------------
(* Properties.                                                             *)

\* The names that a line sets in this way.
Sets(line, how) == {line[i].name : i \in {k \in DOMAIN line : line[k].how = how}}

\* Whichever generation of the environment file systemd started it from, and
\* whatever options the operator repeats, negates or contradicts, the running
\* node uses the RPC port that proxy, monitor and collector dial; it listens
\* on both loopback addresses and nowhere else, and admits no other clients,
\* provided that no such option of the operator's is in quotes, which hides it
\* from harden_service_args.  What bitcoin.conf sets is out of the charm's hands.
ListensWhereDialled ==
    node # Down /\ Sets(node, "conf") \cap RpcBindOpts = {} =>
        /\ RpcPort(node) = BITCOIND_RPC_PORT
        /\ Sets(node, "quoted") \cap RpcBindOpts = {} =>
             List(node, "rpcbind") = Loopback /\ List(node, "rpcallowip") = {}

\* A document that was collected while one and the same node ran describes
\* that node as bitcoind itself reads its arguments, not the environment file
\* or the configuration: chain and ports, in both copies.  A port is excepted
\* that bitcoin.conf sets, which the collection does not read, or that is named
\* inside a quoted argument, which the collection takes for an option.
DescribesNode ==
    \A d \in {doc, uploaded} : d.same =>
        /\ d.chain = Chain(d.of)
        /\ "rpcport" \notin Sets(d.of, "conf") => d.rpc_internal = RpcPort(d.of)
        /\ "port" \notin Sets(d.of, "conf") \cup Sets(d.of, "inside") => d.p2p = P2pPort(d.of)

\* When configuration and node are left alone, the local document, and with a
\* valid secret the uploaded one, end up describing the running node, whatever
\* failed or was mixed up before; unless the charm cannot talk to the node or
\* the secret is invalid.
Settles ==
    <>[]( Answers /\ config.secret # "invalid" =>
            /\ doc.same /\ doc.of = node /\ result = "ok"
            /\ config.secret = "valid" => uploaded = doc \/ pc = "upload" )
=============================================================================
