-------------------------------- MODULE Certs --------------------------------
(***************************************************************************)
(* The directory certs/: `cert ca` and `cert gen` (tlsgen), each given in  *)
(* the shell or in the web panel, write a CA pair and a server and a       *)
(* client pair file by file; `service start` looks whether four of the     *)
(* files exist and a goroutine then loads three of them, and panics when   *)
(* they do not fit.  No lock or temporary file protects the directory.     *)
(*                                                                         *)
(* A file is missing, torn (created or truncated, its block not written    *)
(* yet) or holds one PEM block; of a key or certificate only its identity  *)
(* counts: `key`, the key pair it belongs to, and `by`, the one it was     *)
(* signed with (a key file repeats its own).  The server's and the         *)
(* client's key of one `cert gen` are never compared and share a name.     *)
(* What fails before the first file is touched changes nothing.            *)
(*                                                                         *)
(* Bounds: CaKeys and Leafs are slots, used again when nothing refers to   *)
(* them; Ops are slots for cert commands being executed.                   *)
(***************************************************************************)
EXTENDS Naturals, Sequences

CONSTANTS
    CaKeys,     \* key pairs of CAs (slots)
    Leafs,      \* key pairs of servers and clients (slots)
    Ops,        \* cert commands being executed (slots)
    Faults,     \* what may go wrong: "create", "write", "crash"
    Torn, Nil

ASSUME SlotsAssumption == CaKeys \cap Leafs = {}
ASSUME FaultsAssumption == Faults \subseteq {"create", "write", "crash"}

Files == {"ca.key", "ca.crt", "server.key", "server.crt", "client.key", "client.crt"}
Pem == [key : CaKeys \cup Leafs, by : CaKeys \cup Leafs]

ASSUME NilAssumption == Torn # Nil /\ Torn \notin Pem /\ Nil \notin Pem

VARIABLES
    file,       \* file[f]: what is in certs/f
    op,         \* op[o]: where a cert command stands
    svc,        \* the goroutine that loads the server's files
    panicked,   \* the process has died of unfit files
    damaged     \* a cert command was cut off, failed or overlapped another
                \* one, and no undisturbed `cert gen` has succeeded since

vars == <<file, op, svc, panicked, damaged>>

IdleOp == [kind |-> "none", ca |-> Nil, todo |-> << >>, opened |-> FALSE, mixed |-> FALSE]
IdleSvc == [pc |-> "off", crt |-> Nil, mixed |-> FALSE]

Block == [file : Files, pem : Pem]

TypeOK ==
    /\ file \in [Files -> Pem \cup {Torn, Nil}]
    /\ \A o \in Ops :
          /\ op[o].kind \in {"none", "ca", "gen"}
          /\ op[o].ca \in Pem \cup {Nil}
          /\ Len(op[o].todo) <= 4
          /\ \A i \in DOMAIN op[o].todo : op[o].todo[i] \in Block
          /\ {op[o].opened, op[o].mixed} \subseteq BOOLEAN
    /\ svc \in [pc : {"off", "crt", "key", "ca"}, crt : Pem \cup {Torn, Nil}, mixed : BOOLEAN]
    /\ {panicked, damaged} \subseteq BOOLEAN

Init ==
    /\ file = [f \in Files |-> Nil]
    /\ op = [o \in Ops |-> IdleOp]
    /\ svc = IdleSvc
    /\ panicked = FALSE
    /\ damaged = FALSE

Exists(f) == file[f] # Nil
Parses(f) == file[f] \notin {Torn, Nil}

\* Two files hold a key and its certificate.
Pair(key, crt) == Parses(key) /\ Parses(crt) /\ file[key].key = file[crt].key

-----------------------------------------------------------------------------
(* Cert commands.                                                           *)

Busy(o) == op[o].kind # "none"

\* o begins; whatever else is under way is disturbed, and so is o by it.
Begin(o, x) ==
    /\ ~Busy(o)
    /\ op' = [q \in Ops |->
                 IF q = o THEN [x EXCEPT !.mixed = \E p \in Ops : Busy(p)]
                 ELSE IF Busy(q) THEN [op[q] EXCEPT !.mixed = TRUE] ELSE op[q]]
    /\ svc' = [svc EXCEPT !.mixed = (svc.pc # "off")]

Used(k) ==
    \/ \E f \in Files : Parses(f) /\ k \in {file[f].key, file[f].by}
    \/ svc.crt \notin {Torn, Nil} /\ k \in {svc.crt.key, svc.crt.by}
    \/ \E o \in Ops :
          \/ op[o].ca # Nil /\ op[o].ca.key = k
          \/ \E i \in DOMAIN op[o].todo : k \in {op[o].todo[i].pem.key, op[o].todo[i].pem.by}

Writes(f, key, by) == [file |-> f, pem |-> [key |-> key, by |-> by]]

\* Variant: a key that exists is kept and only the certificate is made again.
GenerateCA_KeepsKey(o, overwrite) ==
    /\ Exists("ca.key") /\ Exists("ca.crt") => overwrite
    /\ \E k \in CaKeys :
          /\ ~Used(k)
          /\ Begin(o, [IdleOp EXCEPT !.kind = "ca", !.todo =
                (IF Exists("ca.key") THEN << >> ELSE << Writes("ca.key", k, k) >>)
                    \o << Writes("ca.crt", k, k) >>])
    /\ UNCHANGED <<file, panicked, damaged>>

\* If both files exist and are not to be overwritten the command ends at once,
\* and says it has succeeded.
GenerateCA(o, overwrite) ==
    /\ Exists("ca.key") /\ Exists("ca.crt") => overwrite
    /\ \E k \in CaKeys :
          /\ ~Used(k)
          /\ Begin(o, [IdleOp EXCEPT !.kind = "ca", !.todo =
                         << Writes("ca.key", k, k), Writes("ca.crt", k, k) >>])
    /\ UNCHANGED <<file, panicked, damaged>>

\* Variant: what is read is not parsed.
ReadCA_Unparsed(o) ==
    /\ Exists("ca.crt")
    /\ Begin(o, [IdleOp EXCEPT !.kind = "gen", !.ca = file["ca.crt"]])
    /\ UNCHANGED <<file, panicked, damaged>>

\* GenerateServerAndClientCerts reads the certificate of the CA ...
ReadCA(o) ==
    /\ Parses("ca.crt")
    /\ Begin(o, [IdleOp EXCEPT !.kind = "gen", !.ca = file["ca.crt"]])
    /\ UNCHANGED <<file, panicked, damaged>>

\* x509.CreateCertificate compares the key with the certificate it signs for.
Signs(o) == Parses("ca.key") /\ file["ca.key"].key = op[o].ca.key

\* ... then its key, with which it signs; the server's pair is written first.
Sign(o) ==
    /\ op[o].kind = "gen" /\ op[o].todo = << >>
    /\ IF Signs(o)
       THEN \E g \in Leafs :
          /\ ~Used(g)
          /\ LET by == file["ca.key"].key IN
             op' = [op EXCEPT ![o].ca = Nil, ![o].todo =
                      << Writes("server.key", g, g), Writes("server.crt", g, by),
                         Writes("client.key", g, g), Writes("client.crt", g, by) >>]
       ELSE op' = [op EXCEPT ![o] = IdleOp]
    /\ UNCHANGED <<file, svc, panicked, damaged>>

\* The command reports an error; earlier files stay as they are.
Fail(o) ==
    /\ op' = [op EXCEPT ![o] = IdleOp]
    /\ damaged' = TRUE

\* os.Create truncates.
Create(o) ==
    /\ op[o].todo # << >> /\ ~op[o].opened
    /\ \/ /\ file' = [file EXCEPT ![Head(op[o].todo).file] = Torn]
          /\ op' = [op EXCEPT ![o].opened = TRUE]
          /\ UNCHANGED damaged
       \/ /\ "create" \in Faults
          /\ Fail(o)
          /\ UNCHANGED file
    /\ UNCHANGED <<svc, panicked>>

\* Variant: a failed write is not reported.
Write_Unchecked(o) ==
    /\ op[o].opened
    /\ \/ file' = [file EXCEPT ![Head(op[o].todo).file] = Head(op[o].todo).pem]
       \/ "write" \in Faults /\ UNCHANGED file
    /\ IF Len(op[o].todo) = 1
       THEN /\ op' = [op EXCEPT ![o] = IdleOp]
            /\ damaged' = (op[o].mixed \/ (op[o].kind = "ca" /\ damaged))
       ELSE /\ op' = [op EXCEPT ![o].todo = Tail(@), ![o].opened = FALSE]
            /\ UNCHANGED damaged
    /\ UNCHANGED <<svc, panicked>>

\* pem.Encode; after the last file the command reports success.
Write(o) ==
    /\ op[o].opened
    /\ \/ /\ file' = [file EXCEPT ![Head(op[o].todo).file] = Head(op[o].todo).pem]
          /\ IF Len(op[o].todo) = 1
             THEN /\ op' = [op EXCEPT ![o] = IdleOp]
                  /\ damaged' = (op[o].mixed \/ (op[o].kind = "ca" /\ damaged))
             ELSE /\ op' = [op EXCEPT ![o].todo = Tail(@), ![o].opened = FALSE]
                  /\ UNCHANGED damaged
       \/ /\ "write" \in Faults
          /\ Fail(o)
          /\ UNCHANGED file
    /\ UNCHANGED <<svc, panicked>>

-----------------------------------------------------------------------------
(* service start.                                                           *)

\* Variant: only the files of the CA are looked for.
StartCheck_CaOnly ==
    /\ svc.pc = "off"
    /\ \A f \in {"ca.crt", "ca.key"} : Exists(f)
    /\ svc' = [IdleSvc EXCEPT !.pc = "crt", !.mixed = \E o \in Ops : Busy(o)]
    /\ UNCHANGED <<file, op, panicked, damaged>>

\* CheckServerCertExist; no file is ever removed.
StartCheck ==
    /\ svc.pc = "off"
    /\ \A f \in {"ca.crt", "ca.key", "server.crt", "server.key"} : Exists(f)
    /\ svc' = [IdleSvc EXCEPT !.pc = "crt", !.mixed = \E o \in Ops : Busy(o)]
    /\ UNCHANGED <<file, op, panicked, damaged>>

\* LoadServerTLSConfig: tls.LoadX509KeyPair reads the certificate, then the key.
LoadCrt ==
    /\ svc.pc = "crt"
    /\ svc' = [svc EXCEPT !.pc = "key", !.crt = file["server.crt"]]
    /\ UNCHANGED <<file, op, panicked, damaged>>

\* The panic of the loading goroutine ends the process, commands and all.
Panic ==
    /\ panicked' = TRUE
    /\ op' = [o \in Ops |-> IdleOp]
    /\ damaged' = (damaged \/ \E o \in Ops : Busy(o))
    /\ UNCHANGED <<file, svc>>

LoadKey ==
    /\ svc.pc = "key" /\ ~panicked
    /\ IF svc.crt \notin {Torn, Nil} /\ Parses("server.key") /\ file["server.key"].key = svc.crt.key
       THEN /\ svc' = [svc EXCEPT !.pc = "ca", !.crt = Nil]
            /\ UNCHANGED <<file, op, panicked, damaged>>
       ELSE Panic

LoadCA ==
    /\ svc.pc = "ca" /\ ~panicked
    /\ IF Parses("ca.crt")
       THEN /\ svc' = IdleSvc
            /\ UNCHANGED <<file, op, panicked, damaged>>
       ELSE Panic

-----------------------------------------------------------------------------
\* The process dies, or has died, and is started again.
Restart ==
    /\ panicked \/ "crash" \in Faults
    /\ op' = [o \in Ops |-> IdleOp]
    /\ svc' = IdleSvc
    /\ panicked' = FALSE
    /\ damaged' = (damaged \/ \E o \in Ops : Busy(o))
    /\ UNCHANGED file

Command(o) == (\E overwrite \in BOOLEAN : GenerateCA(o, overwrite)) \/ ReadCA(o)

Next ==
    \/ ~panicked /\ \E o \in Ops : Command(o)
    \/ \E o \in Ops : Sign(o) \/ Create(o) \/ Write(o)
    \/ ~panicked /\ StartCheck
    \/ LoadCrt \/ LoadKey \/ LoadCA
    \/ Restart

Spec == Init /\ [][Next]_vars

-----------------------------------------------------------------------------
\* A server and a client that load the files now accept each other
\* (LoadServerTLSConfig, LoadClientTLSConfig).
Usable ==
    /\ Pair("server.key", "server.crt") /\ Pair("client.key", "client.crt")
    /\ Parses("ca.crt")
    /\ file["server.crt"].by = file["ca.crt"].key
    /\ file["client.crt"].by = file["ca.crt"].key

\* o writes its last block and reports success.
Succeeds(o) ==
    op[o].opened /\ Len(op[o].todo) = 1 /\ op'[o] = IdleOp /\ file' # file

\* A `cert gen` that reports success and overlapped no other command leaves a
\* server and a client that accept each other, whatever crashes, failed writes
\* and overlapping commands have left in the directory before
\* (gen.go:100-147).
GenLeavesUsable ==
    [][\A o \in Ops :
          op[o].kind = "gen" /\ ~op[o].mixed /\ Succeeds(o) => Usable']_vars

\* A `cert ca` that writes its files, and overlapped nothing, leaves a CA that
\* can sign, whatever there was before: it is the way out of every damage
\* (gen.go:60-97).
CaLeavesPair ==
    [][\A o \in Ops :
          op[o].kind = "ca" /\ ~op[o].mixed /\ Succeeds(o)
             => Pair("ca.key", "ca.crt")']_vars

\* Once its check has passed, a service start dies of its certificates only if
\* a cert command overlapped the loading, or one was cut off, failed or
\* overlapped another and none has succeeded since (shellcmd.go:40-44,
\* controller.go:56-61,112-133).
PanicNeedsDamage == panicked => damaged \/ svc.mixed
=============================================================================
