---------------------------- MODULE LifecycleProofs ----------------------------
(***************************************************************************)
(* A server's process and its files, for any names, any number of keys and *)
(* faults and channels of any capacity: types, which key belongs to which  *)
(* certificate, who may log in as the admin, and when clients are served.  *)
(***************************************************************************)
EXTENDS Lifecycle, TLAPS

-----------------------------------------------------------------------------
(* The files. *)

KeySave(n, k) == Save(Key(n), Pem("key", k))
CrtSave(n, k, issuer, signer) == Save(Crt(n), Certificate(k, issuer, signer))

CaSaves(k) == << Save(CaCrt, CertificateAuthority(k)), Save(CaKey, Pem("key", k)) >>
CertSaves(n, k, issuer, signer) ==
  << Save(Req(n), Pem("request", k)), KeySave(n, k), CrtSave(n, k, issuer, signer) >>

\* A command that met no fault has saved a part of its files, and what its last
\* file has to fit is there.
SavesFit ==
  \/ Idle
  \/ \E k \in Nat :
       \/ command = CaSaves(k)
       \/ /\ command = << Save(CaKey, Pem("key", k)) >>
          /\ file[CaCrt] = CertificateAuthority(k)
  \/ \E n \in Name, k, issuer, signer \in Nat :
       \/ command = CertSaves(n, k, issuer, signer)
       \/ command = << KeySave(n, k), CrtSave(n, k, issuer, signer) >>
       \/ /\ command = << CrtSave(n, k, issuer, signer) >>
          /\ file[Key(n)] = Pem("key", k)

\* The command has p still to save.
Saves(saves, p) == \E i \in DOMAIN saves : saves[i].path = p
Awaited(p) == Saves(command, p)

FilesFit ==
  /\ \A n \in Name : Awaited(Crt(n)) \/ SameKey(Key(n), Crt(n))
  /\ Awaited(CaKey) \/ SameKey(CaKey, CaCrt)

\* Without a fault, files are as they should be but for those being saved.
PkiFits == faults = 0 => SavesFit /\ FilesFit

-----------------------------------------------------------------------------
(* The process. *)

\* Nobody changes the files beside a steady process, and what it has read is
\* still there.
AdminFits ==
  steady /\ pc # "down" =>
    /\ Idle
    /\ pc \in {"admin", "ring"} => read = file[Crt(AdminCert)]
    /\ faults = 0 /\ pc \notin {"open", "key", "cert", "admin", "ring", "panicked"} =>
         file[Key(AdminCert)].key \in ring

Serfing == snapshotter # "ended" /\ ~ shutdown

\* No client before Start, nor once StopSsh is done; in between, serf is there, and
\* but for a step of Start, so is the serfer.
ClientsFit ==
  /\ pc \in Creating \cup {"down", "start", "panicked"} =>
       ~ client /\ ssh # "serving" /\ Serfing
  /\ pc = "start.serfer" => Serfing
  /\ pc \in {"join", "running", "stop.ssh"} => Serfing /\ serfer = "selecting"
  /\ pc \in Stopping \ {"stop.ssh"} => ~ client /\ ssh # "serving"

\* Where serf has its goroutines; where there is no serfer for them yet; and where
\* they end.
Unserved == {"alive", "create", "start", "start.serfer"}
Served == Unserved \cup {"join", "running"} \cup Stopping
Closed == {"shutdown.memberlist", "shutdown.wait", "stop.serfer"}

\* Which of serf's goroutines there are, and who may hold a lock, depends on where
\* the main goroutine is: the serfer outlives the snapshotter, and a reader ends
\* only once serf is shut down.
PlacesFit ==
  /\ pc \notin Served => NoPipeline
  /\ pc \in Served => snapshotter # "none" /\ queries # "none"
  /\ pc \in Unserved => serfer = "none"
  /\ pc \in Served \ (Unserved \cup {"stop.serfer"}) => serfer = "selecting"
  /\ pc = "stop.serfer" => serfer \in {"dying", "ended"} /\ snapshotter = "ended"
  /\ shutdown <=> pc \in Closed
  /\ snapshotter = "ended" \/ queries = "ended" => shutdown
  /\ sender = "main" => pc \in {"create", "join", "leave.sent"}

Inv == TypeOK /\ PkiFits /\ AdminFits /\ ClientsFit /\ PlacesFit

LEMMA Limits ==
  /\ SnapshotterLimit \in Nat \ {0} /\ QueriesLimit \in Nat \ {0}
  /\ SerferLimit \in Nat \ {0}
BY PipelineAssumption

LEMMA InitInv == Init => Inv
<1>. SUFFICES ASSUME Init PROVE Inv
  OBVIOUS
<1>1. PkiTypeOK
  BY PkiAssumption DEF Init, PkiInit, PkiTypeOK, Missing, Pem, Pems, NoCommand
<1>2. PipelineTypeOK
  <2>1. /\ 0 \in 0..SnapshotterLimit /\ 0 \in 0..QueriesLimit /\ 0 \in 0..SerferLimit
    BY Limits
  <2>. QED  BY <2>1 DEF Init, NoPipeline, PipelineTypeOK
<1>3. TypeOK
  <2>1. Missing \in Pems
    BY PkiAssumption DEF Missing, Pem, Pems
  <2>2. NoAdmin \subseteq 0..MaxKeys
    BY PkiAssumption DEF NoAdmin
  <2>. QED  BY <1>1, <1>2, <2>1, <2>2 DEF Init, TypeOK
<1>4. PkiFits
  BY DEF Init, PkiInit, PkiFits, SavesFit, FilesFit, Idle, NoCommand, SameKey,
         Missing, Pem, Path
<1>5. AdminFits /\ ClientsFit
  BY DEF Init, NoPipeline, AdminFits, ClientsFit, Serfing, Stopping
<1>6. PlacesFit
  BY DEF Init, NoPipeline, PlacesFit, Served, Unserved, Stopping, Closed
<1>. QED  BY <1>3, <1>4, <1>5, <1>6 DEF Inv

-----------------------------------------------------------------------------
(* The commands. *)

LEMMA PathsDiffer ==
  /\ \A m, n : /\ Key(m) = Key(n) => m = n
               /\ Crt(m) = Crt(n) => m = n
               /\ Key(m) # Crt(n) /\ Req(m) # Key(n) /\ Req(m) # Crt(n)
               /\ CaCrt # Key(m) /\ CaCrt # Crt(m) /\ CaCrt # Req(m)
  /\ \A n \in Name : Key(n) # CaKey
BY PkiAssumption DEF Key, Crt, Req, CaCrt, CaKey

LEMMA PathsAreThere ==
  /\ CaCrt \in Path /\ CaKey \in Path
  /\ \A n \in Name : Req(n) \in Path /\ Key(n) \in Path /\ Crt(n) \in Path
BY DEF Path

LEMMA SavesAreTyped ==
  ASSUME PkiTypeOK, keys < MaxKeys
  PROVE  /\ CaSaves(keys + 1) \in Seq([path : Path, pem : Pems])
         /\ \A n \in Name :
              CertSaves(n, keys + 1, file[CaCrt].key, file[CaKey].key)
                \in Seq([path : Path, pem : Pems])
<1>. DEFINE k == keys + 1
<1>1. k \in 0..MaxKeys
  BY PkiAssumption DEF PkiTypeOK
<1>2. file[CaCrt].key \in 0..MaxKeys /\ file[CaKey].key \in 0..MaxKeys
  BY PathsAreThere DEF PkiTypeOK, Pems
<1>3. /\ Pem("key", k) \in Pems /\ Pem("request", k) \in Pems
      /\ CertificateAuthority(k) \in Pems
      /\ Certificate(k, file[CaCrt].key, file[CaKey].key) \in Pems
  BY <1>1, <1>2, PkiAssumption DEF Pem, Pems, CertificateAuthority, Certificate
<1>. HIDE DEF k
<1>4. CaSaves(k) \in Seq([path : Path, pem : Pems])
  BY <1>3, PathsAreThere DEF CaSaves, Save
<1>5. ASSUME NEW n \in Name
      PROVE  CertSaves(n, k, file[CaCrt].key, file[CaKey].key)
               \in Seq([path : Path, pem : Pems])
  BY <1>3, PathsAreThere DEF CertSaves, KeySave, CrtSave, Save
<1>. QED  BY <1>4, <1>5 DEF k

LEMMA NextSaveIsTyped ==
  ASSUME PkiTypeOK, ~ Idle
  PROVE  /\ NextSave.path \in Path /\ NextSave.pem \in Pems
         /\ Tail(command) \in Seq([path : Path, pem : Pems])
<1>. DEFINE Todo == [path : Path, pem : Pems]
<1>1. command \in Seq(Todo) /\ command # <<>>
  BY DEF PkiTypeOK, Idle, NoCommand
<1>2. Head(command) \in Todo /\ Tail(command) \in Seq(Todo)
  <2>. HIDE DEF Todo
  <2>1. ASSUME NEW s \in Seq(Todo), s # <<>>
        PROVE  Head(s) \in Todo /\ Tail(s) \in Seq(Todo)
    BY <2>1
  <2>. QED  BY <1>1, <2>1
<1>. QED  BY <1>2 DEF NextSave

LEMMA CommandTypes ==
  ASSUME PkiTypeOK, Command
  PROVE  PkiTypeOK'
<1>. USE DEF PkiTypeOK
<1>1. CASE InitCA
  BY <1>1, SavesAreTyped, PkiAssumption DEF InitCA, Begin, CaSaves
<1>2. ASSUME NEW n \in Name, NewCert(n) PROVE PkiTypeOK'
  BY <1>2, SavesAreTyped, PkiAssumption DEF NewCert, Begin, CertSaves, KeySave, CrtSave
<1>3. CASE Create
  BY <1>3, NextSaveIsTyped, PkiAssumption DEF Create, Blank, Pem, Pems
<1>4. CASE Encode
  BY <1>4, NextSaveIsTyped DEF Encode
<1>5. CASE SaveFails
  BY <1>5, NextSaveIsTyped, PkiAssumption DEF SaveFails
<1>6. CASE Kill
  <2>1. <<>> \in Seq([path : Path, pem : Pems])
    OBVIOUS
  <2>2. faults' \in 0..MaxFaults
    BY <1>6, PkiAssumption DEF Kill
  <2>. QED  BY <1>6, <2>1, <2>2 DEF Kill, NoCommand
<1>. QED  BY <1>1, <1>2, <1>3, <1>4, <1>5, <1>6 DEF Command

\* What is awaited when a command begins, and after each file.
LEMMA SavesOf ==
  /\ \A p : ~ Saves(<<>>, p)
  /\ \A a, p : Saves(<<a>>, p) <=> p = a.path
  /\ \A a, b, p : Saves(<<a, b>>, p) <=> p \in {a.path, b.path}
  /\ \A a, b, c, p : Saves(<<a, b, c>>, p) <=> p \in {a.path, b.path, c.path}
BY DEF Saves

LEMMA PathOf == \A p, pem : Save(p, pem).path = p /\ Save(p, pem).pem = pem
BY DEF Save

LEMMA CaSavesOf ==
  ASSUME NEW k
  PROVE  /\ \A p : Saves(CaSaves(k), p) <=> p \in {CaCrt, CaKey}
         /\ \A p : Saves(<< Save(CaKey, Pem("key", k)) >>, p) <=> p = CaKey
         /\ Head(CaSaves(k)) = Save(CaCrt, CertificateAuthority(k))
         /\ Tail(CaSaves(k)) = << Save(CaKey, Pem("key", k)) >>
BY SavesOf, PathOf DEF CaSaves

LEMMA CertSavesOf ==
  ASSUME NEW n, NEW k, NEW issuer, NEW signer
  PROVE  /\ \A p : Saves(CertSaves(n, k, issuer, signer), p)
                     <=> p \in {Req(n), Key(n), Crt(n)}
         /\ \A p : Saves(<< KeySave(n, k), CrtSave(n, k, issuer, signer) >>, p)
                     <=> p \in {Key(n), Crt(n)}
         /\ \A p : Saves(<< CrtSave(n, k, issuer, signer) >>, p) <=> p = Crt(n)
         /\ Head(CertSaves(n, k, issuer, signer)) = Save(Req(n), Pem("request", k))
         /\ Tail(CertSaves(n, k, issuer, signer))
              = << KeySave(n, k), CrtSave(n, k, issuer, signer) >>
<1>. DEFINE req == Save(Req(n), Pem("request", k))
<1>1. /\ KeySave(n, k).path = Key(n) /\ CrtSave(n, k, issuer, signer).path = Crt(n)
      /\ req.path = Req(n)
  BY PathOf DEF KeySave, CrtSave
<1>2. CertSaves(n, k, issuer, signer)
        = << req, KeySave(n, k), CrtSave(n, k, issuer, signer) >>
  BY DEF CertSaves
<1>. HIDE DEF req
<1>. QED  BY <1>1, <1>2, SavesOf DEF req

LEMMA Unbroken ==
  ASSUME PkiTypeOK, Command, faults' = 0
  PROVE  faults = 0 /\ ~ SaveFails /\ ~ Kill
BY PkiAssumption DEF PkiTypeOK, Command, InitCA, NewCert, Begin, Create, Encode,
   SaveFails, Kill

\* A command begins: all its files are awaited.
LEMMA BeginFits ==
  ASSUME PkiTypeOK, PkiFits, faults = 0,
         InitCA \/ \E n \in Name : NewCert(n)
  PROVE  SavesFit' /\ FilesFit'
<1>. DEFINE k == keys + 1
<1>1. SavesFit /\ FilesFit /\ \A p : ~ Awaited(p)
  BY SavesOf DEF PkiFits, InitCA, NewCert, Begin, Idle, NoCommand, Awaited
<1>2. file' = file /\ k \in Nat
  BY PkiAssumption DEF InitCA, NewCert, Begin, PkiTypeOK
<1>3. CASE InitCA
  <2>1. command' = CaSaves(k)
    BY <1>3 DEF InitCA, Begin, CaSaves
  <2>2. Awaited(CaKey)'
    BY <2>1, CaSavesOf DEF Awaited
  <2>. QED  BY <1>1, <1>2, <2>1, <2>2 DEF SavesFit, FilesFit, SameKey
<1>4. ASSUME NEW n \in Name, NewCert(n) PROVE SavesFit' /\ FilesFit'
  <2>1. PICK issuer, signer \in Nat : command' = CertSaves(n, k, issuer, signer)
    <3>1. file[CaCrt].key \in Nat /\ file[CaKey].key \in Nat
      <4>1. file[CaCrt] \in Pems /\ file[CaKey] \in Pems
        BY PathsAreThere DEF PkiTypeOK
      <4>2. \A p \in Pems : p.key \in Nat
        BY PkiAssumption DEF Pems
      <4>. QED  BY <4>1, <4>2
    <3>. QED  BY <1>4, <3>1 DEF NewCert, Begin, CertSaves, KeySave, CrtSave
  <2>2. Awaited(Crt(n))'
    BY <2>1, CertSavesOf DEF Awaited
  <2>3. SavesFit'
    BY <1>2, <2>1 DEF SavesFit
  <2>. QED  BY <1>1, <1>2, <2>2, <2>3 DEF FilesFit, SameKey
<1>. QED  BY <1>3, <1>4

\* Whether files fit depends on the two.
LEMMA SameFiles ==
  ASSUME NEW q, NEW p, UNCHANGED <<file[q], file[p]>>
  PROVE  SameKey(q, p)' <=> SameKey(q, p)
BY DEF SameKey

\* A file that is created, or written whole, is one whose fellow is awaited, or
\* fits it.
LEMMA SaveFits ==
  ASSUME PkiTypeOK, PkiFits, faults = 0, Create \/ Encode
  PROVE  SavesFit' /\ FilesFit'
<1>. DEFINE q == NextSave.path
<1>1. SavesFit /\ FilesFit /\ ~ Idle
  BY DEF PkiFits, Create, Encode
<1>2. /\ \A p \in Path : p # q => file'[p] = file[p]
      /\ Encode => file'[q] = NextSave.pem /\ command' = Tail(command)
      /\ Create => command' = command
  BY NextSaveIsTyped DEF Create, Encode, PkiTypeOK
<1>3. /\ \A n \in Name : q \notin {Key(n), Crt(n)} =>
            (SameKey(Key(n), Crt(n))' <=> SameKey(Key(n), Crt(n)))
      /\ q \notin {CaKey, CaCrt} => (SameKey(CaKey, CaCrt)' <=> SameKey(CaKey, CaCrt))
  BY <1>2, PathsAreThere, SameFiles
<1>. HIDE DEF q
\* The authority's two files are awaited, or its key is.
<1>4. ASSUME NEW k \in Nat, command = CaSaves(k) PROVE SavesFit' /\ FilesFit'
  <2>0. /\ \A p : Awaited(p) <=> p \in {CaCrt, CaKey}
        /\ NextSave = Save(CaCrt, CertificateAuthority(k))
        /\ Tail(command) = << Save(CaKey, Pem("key", k)) >>
    BY <1>4, CaSavesOf DEF Awaited, NextSave
  <2>1. q = CaCrt /\ NextSave.pem = CertificateAuthority(k)
    BY <2>0, PathOf DEF q
  <2>2. \A n \in Name : SameKey(Key(n), Crt(n))'
    <3>1. \A n \in Name : ~ Awaited(Crt(n)) /\ q \notin {Key(n), Crt(n)}
      BY <2>0, <2>1, PathsDiffer DEF CaKey
    <3>. QED  BY <1>1, <1>3, <3>1 DEF FilesFit
  <2>3. CASE Create
    BY <1>2, <1>4, <2>0, <2>2, <2>3 DEF SavesFit, FilesFit, Awaited
  <2>4. CASE Encode
    <3>1. command' = << Save(CaKey, Pem("key", k)) >>
      BY <1>2, <2>0, <2>4
    <3>2. file'[CaCrt] = CertificateAuthority(k)
      BY <1>2, <2>1, <2>4
    <3>. QED  BY <2>2, <3>1, <3>2, CaSavesOf DEF SavesFit, FilesFit, Awaited
  <2>. QED  BY <2>3, <2>4
<1>5. ASSUME NEW k \in Nat, command = << Save(CaKey, Pem("key", k)) >>,
             file[CaCrt] = CertificateAuthority(k)
      PROVE SavesFit' /\ FilesFit'
  <2>1. q = CaKey /\ NextSave.pem = Pem("key", k)
    BY <1>5, PathOf DEF q, NextSave
  <2>2. \A n \in Name : SameKey(Key(n), Crt(n))'
    BY <1>1, <1>3, <1>5, <2>1, CaSavesOf, PathsDiffer DEF FilesFit, Awaited, CaKey
  <2>3. file'[CaCrt] = CertificateAuthority(k)
    BY <1>2, <1>5, <2>1, PathsDiffer, PathsAreThere DEF CaKey
  <2>4. CASE Create
    BY <1>2, <1>5, <2>2, <2>3, <2>4, CaSavesOf DEF SavesFit, FilesFit, Awaited
  <2>5. CASE Encode
    <3>1. command' = <<>> /\ file'[CaKey] = Pem("key", k)
      BY <1>2, <1>5, <2>1, <2>5
    <3>2. SameKey(CaKey, CaCrt)'
      BY <2>3, <3>1 DEF SameKey, Pem, CertificateAuthority, Certificate
    <3>. QED  BY <2>2, <3>1, <3>2 DEF SavesFit, FilesFit, Idle, NoCommand
  <2>. QED  BY <2>4, <2>5
\* The certificate of a name is awaited, and what comes before it.
<1>6. ASSUME NEW n \in Name, q \in {Req(n), Key(n), Crt(n)},
             \A p : Awaited(p) => p \in {Req(n), Key(n), Crt(n)},
             Awaited(Crt(n))' \/ SameKey(Key(n), Crt(n))'
      PROVE  FilesFit'
  <2>1. ~ Awaited(CaKey) /\ \A m \in Name : m # n => ~ Awaited(Crt(m))
    BY <1>6, PathsDiffer DEF CaKey
  <2>2. q \notin {CaKey, CaCrt} /\ \A m \in Name : m # n => q \notin {Key(m), Crt(m)}
    BY <1>6, PathsDiffer DEF CaKey
  <2>. QED  BY <1>1, <1>3, <1>6, <2>1, <2>2 DEF FilesFit
<1>7. ASSUME NEW n \in Name, NEW k \in Nat, NEW issuer \in Nat, NEW signer \in Nat,
             command = CertSaves(n, k, issuer, signer)
      PROVE SavesFit' /\ FilesFit'
  <2>0. /\ \A p : Awaited(p) <=> p \in {Req(n), Key(n), Crt(n)}
        /\ NextSave = Save(Req(n), Pem("request", k))
        /\ Tail(command) = << KeySave(n, k), CrtSave(n, k, issuer, signer) >>
    <3>. HIDE DEF q
    <3>. QED  BY <1>7, CertSavesOf DEF Awaited, NextSave
  <2>1. q = Req(n)
    BY <2>0, PathOf DEF q
  <2>2. \A p : Awaited(p) => p \in {Req(n), Key(n), Crt(n)}
    BY <2>0
  <2>3. CASE Create
    <3>1. Awaited(Crt(n))' /\ command' = command
      BY <1>2, <2>0, <2>3 DEF Awaited
    <3>. QED  BY <1>6, <1>7, <2>1, <2>2, <3>1 DEF SavesFit
  <2>4. CASE Encode
    <3>1. command' = << KeySave(n, k), CrtSave(n, k, issuer, signer) >>
      BY <1>2, <2>0, <2>4
    <3>2. Awaited(Crt(n))'
      BY <3>1, CertSavesOf DEF Awaited
    <3>. QED  BY <1>6, <2>1, <2>2, <3>1, <3>2 DEF SavesFit
  <2>. QED  BY <2>3, <2>4
<1>8. ASSUME NEW n \in Name, NEW k \in Nat, NEW issuer \in Nat, NEW signer \in Nat,
             command = << KeySave(n, k), CrtSave(n, k, issuer, signer) >>
      PROVE SavesFit' /\ FilesFit'
  <2>0. /\ \A p : Awaited(p) <=> p \in {Key(n), Crt(n)}
        /\ NextSave = KeySave(n, k)
        /\ Tail(command) = << CrtSave(n, k, issuer, signer) >>
    BY <1>8, CertSavesOf DEF Awaited, NextSave
  <2>1. q = Key(n) /\ NextSave.pem = Pem("key", k)
    BY <2>0, PathOf DEF q, KeySave
  <2>2. \A p : Awaited(p) => p \in {Req(n), Key(n), Crt(n)}
    BY <2>0
  <2>3. CASE Create
    <3>1. Awaited(Crt(n))' /\ command' = command
      BY <1>2, <2>0, <2>3 DEF Awaited
    <3>. QED  BY <1>6, <1>8, <2>1, <2>2, <3>1 DEF SavesFit
  <2>4. CASE Encode
    <3>1. /\ command' = << CrtSave(n, k, issuer, signer) >>
          /\ file'[Key(n)] = Pem("key", k)
      BY <1>2, <2>0, <2>1, <2>4
    <3>2. Awaited(Crt(n))'
      BY <3>1, CertSavesOf DEF Awaited
    <3>. QED  BY <1>6, <2>1, <2>2, <3>1, <3>2 DEF SavesFit
  <2>. QED  BY <2>3, <2>4
<1>9. ASSUME NEW n \in Name, NEW k \in Nat, NEW issuer \in Nat, NEW signer \in Nat,
             command = << CrtSave(n, k, issuer, signer) >>,
             file[Key(n)] = Pem("key", k)
      PROVE SavesFit' /\ FilesFit'
  <2>0. \A p : Awaited(p) <=> p = Crt(n)
    BY <1>9, CertSavesOf DEF Awaited
  <2>1. q = Crt(n) /\ NextSave.pem = Certificate(k, issuer, signer)
    BY <1>9, PathOf DEF q, NextSave, CrtSave
  <2>2. \A p : Awaited(p) => p \in {Req(n), Key(n), Crt(n)}
    BY <2>0
  <2>3. file'[Key(n)] = Pem("key", k)
    BY <1>2, <1>9, <2>1, PathsDiffer, PathsAreThere
  <2>4. CASE Create
    <3>1. Awaited(Crt(n))' /\ command' = command
      BY <1>2, <2>0, <2>4 DEF Awaited
    <3>. QED  BY <1>6, <1>9, <2>1, <2>2, <2>3, <3>1 DEF SavesFit
  <2>5. CASE Encode
    <3>1. command' = <<>> /\ file'[Crt(n)] = Certificate(k, issuer, signer)
      BY <1>2, <1>9, <2>1, <2>5
    <3>2. SameKey(Key(n), Crt(n))'
      BY <2>3, <3>1 DEF SameKey, Pem, Certificate
    <3>. QED  BY <1>6, <2>1, <2>2, <3>1, <3>2 DEF SavesFit, Idle, NoCommand
  <2>. QED  BY <2>4, <2>5
<1>. QED
  BY <1>1, <1>4, <1>5, <1>7, <1>8, <1>9 DEF SavesFit

LEMMA CommandFits ==
  ASSUME PkiTypeOK, PkiFits, Command
  PROVE  PkiFits'
BY Unbroken, BeginFits, SaveFits DEF PkiFits, Command

-----------------------------------------------------------------------------
(* Types. *)

\* The channels and the goroutines around serf.
LEMMA PipelineTypes ==
  ASSUME PipelineTypeOK,
         \/ PipelineGone \/ Send \/ SnapshotterTakes \/ SnapshotterSends
         \/ SnapshotterEnds \/ QueriesTake \/ QueriesSend \/ QueriesEnd
         \/ SerferTakes \/ SerferEnds
         \/ \E who \in {"gossip", "reaper", "main"} : TakeLock(who)
  PROVE  PipelineTypeOK'
<1>. USE Limits DEF PipelineTypeOK, channels, goroutines
<1>1. CASE PipelineGone
  <2>1. /\ 0 \in 0..SnapshotterLimit /\ 0 \in 0..QueriesLimit /\ 0 \in 0..SerferLimit
    OBVIOUS
  <2>. QED  BY <1>1, <2>1 DEF PipelineGone
<1>2. CASE Send
  BY <1>2 DEF Send
<1>3. CASE SnapshotterTakes
  BY <1>3 DEF SnapshotterTakes
<1>4. CASE SnapshotterSends
  BY <1>4 DEF SnapshotterSends
<1>5. CASE SnapshotterEnds \/ QueriesEnd \/ SerferEnds
  BY <1>5 DEF SnapshotterEnds, QueriesEnd, SerferEnds
<1>6. CASE QueriesTake
  BY <1>6 DEF QueriesTake
<1>7. CASE QueriesSend
  BY <1>7 DEF QueriesSend
<1>8. CASE SerferTakes
  BY <1>8 DEF SerferTakes
<1>9. ASSUME NEW who \in {"gossip", "reaper", "main"}, TakeLock(who)
      PROVE  PipelineTypeOK'
  BY <1>9 DEF TakeLock
<1>. QED  BY <1>1, <1>2, <1>3, <1>4, <1>5, <1>6, <1>7, <1>8, <1>9

\* Where the main goroutine may be, and what it has read.
ProcessTypeOK ==
  /\ pc \in Starting \cup Stopping \cup {"down", "running", "panicked"}
  /\ read \in Pems
  /\ ring \subseteq 0..MaxKeys
  /\ ssh \in {"none", "bound", "serving", "stopping", "stopped"}
  /\ client \in BOOLEAN /\ steady \in BOOLEAN

LEMMA MissingIsAPem == Missing \in Pems
BY PkiAssumption DEF Missing, Pem, Pems

LEMMA NextTypes == TypeOK /\ [Next]_vars => TypeOK'
<1>. SUFFICES ASSUME TypeOK, [Next]_vars PROVE TypeOK'
  OBVIOUS
<1>1. PkiTypeOK /\ PipelineTypeOK /\ ProcessTypeOK
  BY DEF TypeOK, ProcessTypeOK
<1>2. ASSUME PkiTypeOK', PipelineTypeOK', ProcessTypeOK' PROVE TypeOK'
  BY <1>2 DEF TypeOK, ProcessTypeOK
<1>3. UNCHANGED pkiVars => PkiTypeOK'
  BY <1>1 DEF pkiVars, PkiTypeOK
<1>4. UNCHANGED pipelineVars => PipelineTypeOK'
  BY <1>1 DEF pipelineVars, channels, goroutines, PipelineTypeOK
<1>5. UNCHANGED processVars => ProcessTypeOK'
  BY <1>1 DEF processVars, ProcessTypeOK
<1>6. ASSUME Exit PROVE TypeOK'
  <2>1. PipelineTypeOK'
    BY <1>1, <1>6, PipelineTypes DEF Exit
  <2>2. ProcessTypeOK'
    BY <1>1, <1>6, MissingIsAPem DEF Exit, Goto, ProcessTypeOK
  <2>. QED  BY <1>2, <1>3, <1>6, <2>1, <2>2 DEF Exit
<1>7. CASE Launch \/ Open \/ ReadPrivateKey \/ NewSSHServer \/ Created \/ Start
            \/ Joined \/ JoinFails \/ Signal \/ StopSsh \/ LeaveSnapshot \/ LeaveIntent
            \/ LeaveSent \/ ShutdownMemberlist \/ Connect \/ HangUp
  <2>1. UNCHANGED pkiVars /\ UNCHANGED pipelineVars
    BY <1>7 DEF Launch, Open, ReadPrivateKey, NewSSHServer, Created, Start, Joined,
       JoinFails, Signal, StopSsh, LeaveSnapshot, LeaveIntent, LeaveSent,
       ShutdownMemberlist, Connect, HangUp
  <2>2. ProcessTypeOK'
    BY <1>1, <1>7 DEF ProcessTypeOK, Goto, Launch, Open, ReadPrivateKey,
       NewSSHServer, Created, Start, Joined, JoinFails, Signal, StopSsh, LeaveSnapshot,
       LeaveIntent, LeaveSent, ShutdownMemberlist, Connect, HangUp, Starting,
       Creating, Stopping, Idle
  <2>. QED  BY <1>2, <1>3, <1>4, <2>1, <2>2
<1>8. CASE ReadAdminCert \/ CreateAdmin \/ AddPublicKey \/ ReadRoots
  <2>1. UNCHANGED pkiVars /\ UNCHANGED pipelineVars
    BY <1>8 DEF ReadAdminCert, CreateAdmin, AddPublicKey, ReadRoots
  <2>2. AdminCert \in Name /\ file[Crt(AdminCert)] \in Pems /\ read.key \in 0..MaxKeys
    BY <1>1, PathsAreThere, LifecycleAssumption DEF PkiTypeOK, ProcessTypeOK, Pems
  <2>3. ProcessTypeOK'
    BY <1>1, <1>8, <2>2 DEF ProcessTypeOK, Goto, ReadAdminCert, CreateAdmin,
       AddPublicKey, ReadRoots, Starting, Creating
  <2>. QED  BY <1>2, <1>3, <1>4, <2>1, <2>3
<1>9. CASE SetupSerf \/ StartSerfer \/ Shutdown \/ ShutdownWait
  <2>1. UNCHANGED pkiVars
    BY <1>9 DEF SetupSerf, StartSerfer, Shutdown, ShutdownWait
  <2>2. PipelineTypeOK'
    BY <1>1, <1>9 DEF SetupSerf, StartSerfer, Shutdown, ShutdownWait,
       PipelineTypeOK, channels, goroutines
  <2>3. ProcessTypeOK'
    BY <1>1, <1>9 DEF ProcessTypeOK, Goto, SetupSerf, StartSerfer, Shutdown,
       ShutdownWait, Starting, Creating, Stopping
  <2>. QED  BY <1>2, <1>3, <2>1, <2>2, <2>3
<1>10. CASE SetAlive \/ JoinSends \/ LeaveMemberlist \/ Gossip
  <2>1. UNCHANGED pkiVars
    BY <1>10 DEF SetAlive, JoinSends, LeaveMemberlist, Gossip
  <2>2. PipelineTypeOK'
    BY <1>1, <1>10, PipelineTypes DEF SetAlive, JoinSends, LeaveMemberlist, Gossip,
       Gossiping
  <2>3. ProcessTypeOK'
    BY <1>1, <1>10 DEF ProcessTypeOK, Goto, SetAlive, JoinSends, LeaveMemberlist,
       Gossip, processVars, Starting, Creating, Stopping
  <2>. QED  BY <1>2, <1>3, <2>1, <2>2, <2>3
<1>11. CASE Goroutine
  <2>1. UNCHANGED pkiVars /\ UNCHANGED processVars
    BY <1>11 DEF Goroutine, Delivers, SnapshotterRuns, SnapshotterReturns,
       QueriesRun, QueriesReturn, SerferRuns, SerferReturns
  <2>2. PipelineTypeOK'
    BY <1>1, <1>11, PipelineTypes DEF Goroutine, Delivers, SnapshotterRuns,
       SnapshotterReturns, QueriesRun, QueriesReturn, SerferRuns, SerferReturns
  <2>. QED  BY <1>2, <1>3, <1>5, <2>1, <2>2
<1>12. CASE RunCommand
  <2>1. PkiTypeOK'
    BY <1>1, <1>12, CommandTypes DEF RunCommand
  <2>2. ProcessTypeOK'
    BY <1>1, <1>12 DEF RunCommand, ProcessTypeOK
  <2>. QED  BY <1>2, <1>4, <1>12, <2>1, <2>2 DEF RunCommand
<1>13. CASE UNCHANGED vars
  BY <1>2, <1>3, <1>4, <1>5, <1>13 DEF vars
<1>. QED
  BY <1>6, <1>7, <1>8, <1>9, <1>10, <1>11, <1>12, <1>13
     DEF Next, Main, NewServerFails, Crash, StopSerfer

-----------------------------------------------------------------------------
(* The invariant is kept. *)

\* Only commands touch the files.
LEMMA FilesOrCommand ==
  ASSUME [Next]_vars
  PROVE  UNCHANGED pkiVars \/ RunCommand
BY DEF Next, vars, Main, Launch, Open, ReadPrivateKey, ReadAdminCert, CreateAdmin,
   AddPublicKey, ReadRoots, NewSSHServer, SetupSerf, SetAlive, Created, Start,
   StartSerfer, Joined, StopSsh, LeaveSnapshot, LeaveIntent, LeaveMemberlist,
   LeaveSent, Shutdown, ShutdownMemberlist, ShutdownWait, StopSerfer, NewServerFails, Exit, JoinSends,
   JoinFails, Signal, Gossip, Goroutine, Delivers, SnapshotterRuns,
   SnapshotterReturns, QueriesRun, QueriesReturn, SerferRuns, SerferReturns,
   Connect, HangUp, Crash

LEMMA NextPkiFits == Inv /\ [Next]_vars => PkiFits'
<1>. SUFFICES ASSUME Inv, [Next]_vars PROVE PkiFits'
  OBVIOUS
<1>1. CASE UNCHANGED pkiVars
  BY <1>1 DEF Inv, pkiVars, PkiFits, SavesFit, FilesFit, Awaited, Idle, SameKey
<1>2. CASE RunCommand
  BY <1>2, CommandFits DEF RunCommand, Inv, TypeOK
<1>. QED  BY <1>1, <1>2, FilesOrCommand

LEMMA NextAdminFits == Inv /\ [Next]_vars => AdminFits'
<1>. SUFFICES ASSUME Inv, [Next]_vars, steady', pc' # "down" PROVE AdminFits'
  BY DEF AdminFits
<1>1. UNCHANGED pkiVars
  BY FilesOrCommand DEF RunCommand
<1>2. CASE UNCHANGED <<pc, read, ring, steady>>
  BY <1>1, <1>2 DEF Inv, AdminFits, pkiVars, Idle
<1>3. CASE Launch
  BY <1>1, <1>3 DEF Launch, Goto, AdminFits, pkiVars, Idle
<1>4. CASE ReadAdminCert
  BY <1>1, <1>4 DEF Inv, ReadAdminCert, At, Goto, AdminFits, pkiVars, Idle
<1>5. CASE CreateAdmin
  BY <1>1, <1>5 DEF Inv, CreateAdmin, At, Goto, AdminFits, pkiVars, Idle
<1>6. CASE AddPublicKey
  <2>1. Idle /\ read = file[Crt(AdminCert)] /\ read.type = "certificate"
    BY <1>6 DEF Inv, AddPublicKey, At, AdminFits
  <2>2. faults = 0 => file[Key(AdminCert)].key = read.key
    <3>1. ~ Awaited(Crt(AdminCert))
      BY <2>1, SavesOf DEF Idle, NoCommand, Awaited
    <3>. QED
      BY <2>1, <3>1, LifecycleAssumption DEF Inv, PkiFits, FilesFit, SameKey
  <2>. QED  BY <1>1, <1>6, <2>1, <2>2 DEF AddPublicKey, Goto, AdminFits, pkiVars, Idle
<1>7. ASSUME UNCHANGED <<read, ring, steady>>,
             pc \notin {"down", "admin", "ring"}, pc' \notin {"admin", "ring"},
             pc \in {"open", "key", "cert", "panicked"} =>
               pc' \in {"open", "key", "cert", "panicked"}
      PROVE  AdminFits'
  BY <1>1, <1>7 DEF Inv, AdminFits, pkiVars, Idle
<1>8. CASE Open \/ ReadPrivateKey \/ ReadRoots \/ NewSSHServer \/ SetupSerf \/ SetAlive
            \/ Created \/ Start \/ StartSerfer \/ Joined \/ JoinFails \/ Signal
  BY <1>7, <1>8 DEF Open, ReadPrivateKey, ReadRoots, NewSSHServer, SetupSerf,
     SetAlive, Created, Start, StartSerfer, Joined, JoinFails, Signal, At, Goto
<1>9. CASE StopSsh \/ LeaveSnapshot \/ LeaveIntent \/ LeaveMemberlist \/ LeaveSent
            \/ Shutdown \/ ShutdownMemberlist \/ ShutdownWait
  BY <1>7, <1>9 DEF StopSsh, LeaveSnapshot, LeaveIntent, LeaveMemberlist, LeaveSent,
     Shutdown, ShutdownMemberlist, ShutdownWait, At, Goto
<1>10. ~ Exit /\ ~ RunCommand
  BY DEF Exit, Goto, RunCommand
<1>11. CASE JoinSends \/ Gossip \/ Goroutine \/ Connect \/ HangUp \/ UNCHANGED vars
  BY <1>2, <1>11 DEF JoinSends, Gossip, Goroutine, Delivers, SnapshotterRuns,
     SnapshotterReturns, QueriesRun, QueriesReturn, SerferRuns, SerferReturns,
     Connect, HangUp, vars, processVars
<1>. QED
  BY <1>3, <1>4, <1>5, <1>6, <1>8, <1>9, <1>10, <1>11
     DEF Next, Main, NewServerFails, Crash, StopSerfer

LEMMA NextClientsFit == Inv /\ [Next]_vars => ClientsFit'
<1>. SUFFICES ASSUME Inv, [Next]_vars PROVE ClientsFit'
  OBVIOUS
<1>. USE DEF Inv, ClientsFit, Creating, Stopping, Serfing, At, Goto
<1>1. CASE Exit
  BY <1>1 DEF Exit, PipelineGone
<1>2. CASE Launch \/ Open \/ ReadPrivateKey \/ ReadAdminCert \/ CreateAdmin
            \/ AddPublicKey \/ ReadRoots \/ NewSSHServer \/ SetupSerf \/ SetAlive
            \/ Created
  BY <1>2 DEF Launch, Open, ReadPrivateKey, ReadAdminCert, CreateAdmin, AddPublicKey,
     ReadRoots, NewSSHServer, SetupSerf, SetAlive, TakeLock, Created, pipelineVars,
     goroutines
<1>3. CASE Start \/ StartSerfer \/ Joined \/ JoinFails \/ Signal \/ StopSsh
  BY <1>3 DEF Start, StartSerfer, Joined, JoinFails, Signal, StopSsh, pipelineVars, goroutines
<1>4. CASE LeaveSnapshot \/ LeaveIntent \/ LeaveMemberlist \/ LeaveSent \/ Shutdown
            \/ ShutdownMemberlist \/ ShutdownWait
  BY <1>4 DEF LeaveSnapshot, LeaveIntent, LeaveMemberlist, LeaveSent, Shutdown,
     ShutdownMemberlist, ShutdownWait
<1>5. CASE JoinSends \/ Gossip \/ Goroutine
  <2>1. UNCHANGED <<pc, ssh, client, shutdown>>
    BY <1>5 DEF JoinSends, Gossip, TakeLock, Goroutine, Delivers, SnapshotterRuns,
       SnapshotterReturns, QueriesRun, QueriesReturn, SerferRuns, SerferReturns,
       processVars, Send, SnapshotterTakes, SnapshotterSends, SnapshotterEnds,
       QueriesTake, QueriesSend, QueriesEnd, SerferTakes, SerferEnds
  <2>2. /\ snapshotter' = "ended" => snapshotter = "ended" \/ shutdown
        /\ serfer = "selecting" => serfer' = "selecting"
    BY <1>5 DEF JoinSends, Gossip, TakeLock, Goroutine, Delivers, SnapshotterRuns,
       SnapshotterReturns, QueriesRun, QueriesReturn, SerferRuns, SerferReturns,
       processVars, Send, SnapshotterTakes, SnapshotterSends, SnapshotterEnds,
       QueriesTake, QueriesSend, QueriesEnd, SerferTakes, SerferEnds, goroutines
  <2>. QED  BY <2>1, <2>2
<1>6. CASE Connect \/ HangUp \/ RunCommand \/ UNCHANGED vars
  BY <1>6 DEF Connect, HangUp, RunCommand, vars, processVars, pipelineVars, goroutines
<1>. QED
  BY <1>1, <1>2, <1>3, <1>4, <1>5, <1>6
     DEF Next, Main, NewServerFails, Crash, StopSerfer

LEMMA NextPlacesFit == Inv /\ [Next]_vars => PlacesFit'
<1>. SUFFICES ASSUME PlacesFit, [Next]_vars PROVE PlacesFit'
  BY DEF Inv
<1>. USE DEF PlacesFit, Served, Unserved, Closed, Creating, Stopping, At, Goto
<1>1. CASE Exit
  BY <1>1 DEF Exit, PipelineGone, NoPipeline
<1>2. CASE Launch \/ Open \/ ReadPrivateKey \/ ReadAdminCert \/ CreateAdmin
            \/ AddPublicKey \/ ReadRoots \/ NewSSHServer
  BY <1>2 DEF Launch, Open, ReadPrivateKey, ReadAdminCert, CreateAdmin, AddPublicKey,
     ReadRoots, NewSSHServer, NoPipeline, pipelineVars, channels, goroutines
<1>3. CASE SetupSerf
  BY <1>3 DEF SetupSerf, NoPipeline, channels
<1>4. CASE Created \/ Start \/ Joined \/ JoinFails \/ Signal \/ StopSsh \/ LeaveSnapshot
            \/ LeaveIntent \/ LeaveSent \/ ShutdownMemberlist
  BY <1>4 DEF Created, Start, Joined, JoinFails, Signal, StopSsh, LeaveSnapshot,
     LeaveIntent, LeaveSent, ShutdownMemberlist, NodeLocked, pipelineVars, channels, goroutines
<1>5. CASE StartSerfer \/ Shutdown \/ ShutdownWait
  BY <1>5 DEF StartSerfer, Shutdown, ShutdownWait, channels, goroutines
<1>6. CASE SetAlive \/ JoinSends \/ LeaveMemberlist \/ Gossip
  BY <1>6 DEF SetAlive, JoinSends, LeaveMemberlist, Gossip, Gossiping, TakeLock, processVars,
     channels, goroutines
<1>7. CASE Goroutine
  <2>1. UNCHANGED <<pc, shutdown>>
    BY <1>7 DEF Goroutine, Delivers, SnapshotterRuns, SnapshotterReturns, QueriesRun,
       QueriesReturn, SerferRuns, SerferReturns, processVars, Send, SnapshotterTakes,
       SnapshotterSends, SnapshotterEnds, QueriesTake, QueriesSend, QueriesEnd,
       SerferTakes, SerferEnds
  <2>2. CASE Send \/ SerferTakes \/ SerferEnds
    BY <2>1, <2>2 DEF Send, SerferTakes, SerferEnds, NoPipeline, channels, goroutines
  <2>3. CASE SnapshotterTakes \/ SnapshotterSends \/ SnapshotterEnds
    BY <2>1, <2>3 DEF SnapshotterTakes, SnapshotterSends, SnapshotterEnds, NoPipeline,
       channels
  <2>4. CASE QueriesTake \/ QueriesSend \/ QueriesEnd
    BY <2>1, <2>4 DEF QueriesTake, QueriesSend, QueriesEnd, NoPipeline, channels
  <2>. QED
    BY <1>7, <2>2, <2>3, <2>4 DEF Goroutine, Delivers, SnapshotterRuns,
       SnapshotterReturns, QueriesRun, QueriesReturn, SerferRuns, SerferReturns
<1>8. CASE Connect \/ HangUp \/ RunCommand \/ UNCHANGED vars
  BY <1>8 DEF Connect, HangUp, RunCommand, vars, processVars, pipelineVars, channels,
     goroutines, NoPipeline
<1>. QED
  BY <1>1, <1>2, <1>3, <1>4, <1>5, <1>6, <1>7, <1>8
     DEF Next, Main, NewServerFails, Crash, StopSerfer

LEMMA InvHolds == Spec => []Inv
<1>1. Inv /\ [Next]_vars => Inv'
  BY NextTypes, NextPkiFits, NextAdminFits, NextClientsFit, NextPlacesFit DEF Inv
<1>. QED  BY <1>1, InitInv, PTL DEF Spec

-----------------------------------------------------------------------------
(* Theorems. *)

\* Files, channels and process always have the shape the code gives them.
THEOREM TypeCorrect == Spec => []TypeOK
<1>1. Inv => TypeOK
  BY DEF Inv
<1>. QED  BY <1>1, InvHolds, PTL

\* However often init-ca and new-cert were run, and wherever they are between
\* two of them: without a fault, keys belong to their certificates.
THEOREM KeysBelongToCertificates == Spec => []KeysFitCertificates
<1>1. Inv => KeysFitCertificates
  BY SavesOf DEF Inv, PkiFits, FilesFit, Awaited, Idle, NoCommand, KeysFitCertificates
<1>. QED  BY <1>1, InvHolds, PTL

\* A running server admits the admin by the key that is under private/.
THEOREM TheAdminIsAdmitted == Spec => []AdminIsAdmitted
<1>1. Inv => AdminIsAdmitted
  BY DEF Inv, AdminFits, AdminIsAdmitted
<1>. QED  BY <1>1, InvHolds, PTL

\* A client is connected only while serf and the serfer run, the step of Start before
\* the serfer's excepted.
THEOREM OnlyMembersServeClients == Spec => []ClientsAreServedByMembers
<1>1. Inv => ClientsAreServedByMembers
  BY DEF Inv, TypeOK, ClientsFit, Serfing, ClientsAreServedByMembers, Starting, Creating
<1>. QED  BY <1>1, InvHolds, PTL

-----------------------------------------------------------------------------
(* Nobody waits in a circle. *)

\* Who cannot run waits for the next one, down to the serfer, and that one has left
\* room in its channel, or is not there and has room yet, or has ended, but only
\* after the snapshotter: if nobody can run, nobody has anything to do.
LEMMA WaitersAreServed ==
  ASSUME Inv, pc \in Served, ~ PipelineCanRun, ~ Clogged, ~ Overfull
  PROVE  /\ sender = "nobody"
         /\ snapshotter = "ended" \/ (snapshotter = "selecting" /\ ~ shutdown)
<1>1. /\ toSnapshotter \in 0..SnapshotterLimit /\ toQueries \in 0..QueriesLimit
      /\ toSerfer \in 0..SerferLimit
      /\ snapshotter \in {"selecting", "sending", "ended"}
      /\ queries \in {"selecting", "sending", "ended"}
  BY DEF Inv, TypeOK, PipelineTypeOK, PlacesFit
<1>2. CASE snapshotter = "ended"
  <2>1. toSnapshotter < SnapshotterLimit
    BY <1>1, <1>2, Limits DEF Clogged
  <2>. QED  BY <1>2, <2>1 DEF PipelineCanRun
<1>3. CASE snapshotter # "ended"
  <2>1. toSerfer < SerferLimit
    <3>1. serfer = "selecting" \/ serfer = "none"
      BY <1>3 DEF Inv, PlacesFit
    <3>. QED  BY <1>1, <3>1, Limits DEF PipelineCanRun, Overfull
  <2>2. toQueries < QueriesLimit
    <3>1. queries # "sending"
      BY <2>1 DEF PipelineCanRun
    <3>2. CASE queries = "selecting"
      BY <1>1, <3>2, Limits DEF PipelineCanRun
    <3>3. CASE queries = "ended"
      BY <1>1, <3>3, Limits DEF Clogged
    <3>. QED  BY <1>1, <3>1, <3>2, <3>3
  <2>3. snapshotter = "selecting" /\ ~ shutdown /\ toSnapshotter < SnapshotterLimit
    <3>1. snapshotter = "selecting"
      BY <1>1, <1>3, <2>2 DEF PipelineCanRun
    <3>. QED  BY <1>1, <3>1, Limits DEF PipelineCanRun
  <2>. QED  BY <2>3 DEF PipelineCanRun
<1>. QED  BY <1>2, <1>3

\* Everybody who waits waits for somebody who can run, however the channels fill,
\* whoever gossips, and wherever the main goroutine is; but for a client that stays,
\* a channel its reader left full, and the serfer's when it is full before it starts.
THEOREM NobodyWaitsInACircle == Spec => []NobodyIsStuck
<1>1. Inv => NobodyIsStuck
  <2>. SUFFICES ASSUME Inv PROVE NobodyIsStuck
    OBVIOUS
  <2>1. /\ Clogged => shutdown
        /\ Overfull => pc \in Unserved
    BY Limits DEF Inv, PlacesFit, Clogged, Overfull, Served, NoPipeline
  <2>2. ASSUME sender # "nobody", ~ PipelineCanRun, ~ Clogged, ~ Overfull
        PROVE  FALSE
    <3>1. pc \in Served
      BY <2>2 DEF Inv, PlacesFit, NoPipeline
    <3>. QED  BY <2>2, <3>1, WaitersAreServed
  <2>3. ASSUME pc \in Stopping \cup {"alive", "create", "start", "start.serfer", "join"},
               ~ PipelineCanRun, ~ Clogged, ~ Overfull, ~ (pc = "stop.ssh" /\ client)
        PROVE  MainCanRun
    <3>1. pc \in Served
      BY <2>3 DEF Served, Unserved
    <3>2. /\ sender = "nobody"
          /\ snapshotter = "ended" \/ (snapshotter = "selecting" /\ ~ shutdown)
      BY <2>3, <3>1, WaitersAreServed
    <3>3. /\ pc = "stop.serfer" => serfer = "ended"
          /\ pc = "leave.snapshot" => snapshotter # "ended"
          /\ pc = "shutdown.wait" => shutdown
      BY <2>3 DEF Inv, PlacesFit, Closed, PipelineCanRun
    <3>. QED  BY <2>3, <3>2, <3>3 DEF MainCanRun, NodeLocked, Stopping
  <2>4. pc \in Unserved => pc \in {"alive", "create"} \/ MainCanRun
    BY DEF Unserved, MainCanRun
  <2>. QED  BY <2>1, <2>2, <2>3, <2>4 DEF NobodyIsStuck
<1>. QED  BY <1>1, InvHolds, PTL

-----------------------------------------------------------------------------
(* The goroutines run down. *)

LEMMA StepsLeftIsNatural ==
  /\ PipelineTypeOK => StepsLeft \in Nat
  /\ PipelineTypeOK' => StepsLeft' \in Nat
BY Limits DEF PipelineTypeOK, StepsLeft, One

LEMMA GoroutinesRunDown ==
  ASSUME PipelineTypeOK, Goroutine
  PROVE  StepsLeft' < StepsLeft
<1>. USE Limits DEF PipelineTypeOK, StepsLeft, One, channels, goroutines
<1>1. CASE Send
  BY <1>1 DEF Send
<1>2. CASE SnapshotterTakes
  BY <1>2 DEF SnapshotterTakes
<1>3. CASE SnapshotterSends
  BY <1>3 DEF SnapshotterSends
<1>4. CASE SnapshotterEnds
  BY <1>4 DEF SnapshotterEnds
<1>5. CASE QueriesTake
  BY <1>5 DEF QueriesTake
<1>6. CASE QueriesSend
  BY <1>6 DEF QueriesSend
<1>7. CASE QueriesEnd
  BY <1>7 DEF QueriesEnd
<1>8. CASE SerferTakes
  BY <1>8 DEF SerferTakes
<1>9. CASE SerferEnds
  BY <1>9 DEF SerferEnds
<1>. QED
  BY <1>1, <1>2, <1>3, <1>4, <1>5, <1>6, <1>7, <1>8, <1>9
     DEF Goroutine, Delivers, SnapshotterRuns, SnapshotterReturns, QueriesRun,
         QueriesReturn, SerferRuns, SerferReturns

\* A lock is held for no more of the goroutines' steps than are left, and no event
\* comes in between.
THEOREM LocksAreHeldForSoManySteps == Spec => WorkRunsOut
<1>1. ASSUME Inv, [Next]_vars
      PROVE  [ /\ Goroutine => StepsLeft' < StepsLeft
               /\ StepsLeft' > StepsLeft => sender = "nobody" \/ pc' = "down" ]_vars
  <2>1. Goroutine => StepsLeft' < StepsLeft
    BY <1>1, GoroutinesRunDown DEF Inv, TypeOK
  <2>2. StepsLeft \in Nat /\ StepsLeft' \in Nat
    BY <1>1, NextTypes, StepsLeftIsNatural DEF Inv, TypeOK
  <2>3. CASE Goroutine
    BY <2>1, <2>2, <2>3
  <2>4. CASE UNCHANGED pipelineVars
    <3>1. StepsLeft' = StepsLeft
      BY <2>4 DEF pipelineVars, channels, goroutines, StepsLeft
    <3>. QED  BY <2>1, <2>2, <3>1
  <2>5. CASE Exit \/ SetAlive \/ JoinSends \/ LeaveMemberlist \/ Gossip
    <3>1. sender = "nobody" \/ pc' = "down"
      BY <2>5 DEF Exit, Goto, SetAlive, JoinSends, LeaveMemberlist, Gossip, TakeLock
    <3>. QED  BY <2>1, <3>1
  <2>6. CASE SetupSerf \/ StartSerfer \/ Shutdown \/ ShutdownWait
    <3>1. /\ UNCHANGED <<channels, sender>>
          /\ UNCHANGED <<snapshotter, queries>> \/
               {snapshotter, snapshotter', queries, queries'} \subseteq {"none", "selecting"}
          /\ serfer' # "ended" /\ serfer # "ended"
      BY <1>1, <2>6 DEF SetupSerf, StartSerfer, Shutdown, ShutdownWait, At, Inv,
         PlacesFit, Served, Unserved, Stopping, NoPipeline, channels, goroutines
    <3>2. StepsLeft' = StepsLeft
      <4>1. /\ One(snapshotter' = "sending") = One(snapshotter = "sending")
            /\ One(queries' = "sending") = One(queries = "sending")
            /\ One(snapshotter' # "ended") = One(snapshotter # "ended")
            /\ One(queries' # "ended") = One(queries # "ended")
            /\ One(serfer' # "ended") = One(serfer # "ended")
        BY <3>1 DEF One
      <4>. QED  BY <3>1, <4>1 DEF StepsLeft, channels
    <3>. QED  BY <2>1, <2>2, <3>2
  <2>. QED
    BY <1>1, <2>3, <2>4, <2>5, <2>6
       DEF Next, Main, NewServerFails, Crash, StopSerfer, Launch, Open, ReadPrivateKey,
           ReadAdminCert, CreateAdmin, AddPublicKey, ReadRoots, NewSSHServer, Created,
           Start, Joined, JoinFails, Signal, StopSsh, LeaveSnapshot, LeaveIntent, LeaveSent,
           ShutdownMemberlist, Connect, HangUp, RunCommand, vars
<1>. QED  BY <1>1, InvHolds, PTL DEF Spec, WorkRunsOut
=============================================================================
