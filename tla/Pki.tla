--------------------------------- MODULE Pki ---------------------------------
(***************************************************************************)
(* The files under pki/: the authority's certificate and key, which        *)
(* init-ca writes, and a request, a key and a certificate for each name,   *)
(* which new-cert writes.  A command generates a key, prepares what it     *)
(* will save and then saves file after file: each is truncated first and   *)
(* written then, and no error stops the command.                           *)
(***************************************************************************)
EXTENDS Naturals, Sequences

CONSTANTS
  Name,        \* what new-cert is asked to make certificates for
  MaxKeys,     \* bounds the keys generated
  MaxFaults    \* bounds the saves that fail and the commands that are killed

\* A key for "ca" would go where the authority's key is.
ASSUME PkiAssumption ==
  "ca" \notin Name /\ MaxKeys \in Nat /\ MaxFaults \in Nat

VARIABLES
  file,      \* what each file holds
  keys,      \* how many keys were generated
  command,   \* what the command that runs has left to save
  faults     \* how many saves failed or commands were killed

pkiVars == <<file, keys, command, faults>>

CaCrt == <<"pki", "ca">>
Req(n) == <<"reqs", n>>
Key(n) == <<"private", n>>
Crt(n) == <<"public", n>>
CaKey == Key("ca")

Path == {CaCrt, CaKey} \cup {Req(n) : n \in Name} \cup {Key(n) : n \in Name}
          \cup {Crt(n) : n \in Name}

\* A key, or something about it; a certificate has an issuer, whose name is in
\* it, and a signer, whose key signed it.
Pem(type, k) == [type |-> type, key |-> k, issuer |-> 0, signer |-> 0]
Certificate(k, issuer, signer) ==
  [type |-> "certificate", key |-> k, issuer |-> issuer, signer |-> signer]
CertificateAuthority(k) == Certificate(k, k, k)
Missing == Pem("missing", 0)
Blank == Pem("blank", 0)

Pems ==
  [type : {"missing", "blank", "request", "key", "certificate"},
   key : 0..MaxKeys, issuer : 0..MaxKeys, signer : 0..MaxKeys]

NoCommand == <<>>
Save(p, pem) == [path |-> p, pem |-> pem]

PkiTypeOK ==
  /\ file \in [Path -> Pems]
  /\ keys \in 0..MaxKeys
  /\ command \in Seq([path : Path, pem : Pems])
  /\ faults \in 0..MaxFaults

PkiInit ==
  /\ file = [p \in Path |-> Missing]
  /\ keys = 0
  /\ command = NoCommand
  /\ faults = 0

-----------------------------------------------------------------------------
(* The commands. *)

Idle == command = NoCommand

\* The command has its key.  Before, it has looked for the files it is about to
\* save, and if one of them was there, its user has agreed or has asked it to
\* overwrite.
Begin(saves) ==
  /\ Idle
  /\ keys < MaxKeys
  /\ keys' = keys + 1
  /\ command' = saves
  /\ UNCHANGED <<file, faults>>

InitCA ==
  LET k == keys + 1 IN
  Begin(<< Save(CaCrt, CertificateAuthority(k)), Save(CaKey, Pem("key", k)) >>)

ReadAuthority == file[CaCrt].type = "certificate" /\ file[CaKey].type = "key"

\* Mutant of NewCert: a key that is there is kept.
NewCertKeepingKeys(n) ==
  LET k == keys + 1
      pem == IF file[Key(n)].type = "key" THEN file[Key(n)] ELSE Pem("key", k)
  IN
  /\ ReadAuthority
  /\ Begin(<< Save(Req(n), Pem("request", k)), Save(Key(n), pem),
              Save(Crt(n), Certificate(k, file[CaCrt].key, file[CaKey].key)) >>)

\* CreateCertificate needs both files of the authority, and does not ask
\* whether they belong together.
NewCert(n) ==
  LET k == keys + 1 IN
  /\ ReadAuthority
  /\ Begin(<< Save(Req(n), Pem("request", k)), Save(Key(n), Pem("key", k)),
              Save(Crt(n), Certificate(k, file[CaCrt].key, file[CaKey].key)) >>)

NextSave == Head(command)

\* os.Create.
Create ==
  /\ ~ Idle
  /\ file' = [file EXCEPT ![NextSave.path] = Blank]
  /\ UNCHANGED <<keys, command, faults>>

\* pem.Encode and Close, of a file Create has made.
Encode ==
  /\ ~ Idle
  /\ file[NextSave.path] = Blank
  /\ file' = [file EXCEPT ![NextSave.path] = NextSave.pem]
  /\ command' = Tail(command)
  /\ UNCHANGED <<keys, faults>>

\* os.Create returned an error, and Encode gets no file; or Encode failed.
SaveFails ==
  /\ ~ Idle
  /\ faults < MaxFaults
  /\ faults' = faults + 1
  /\ command' = Tail(command)
  /\ UNCHANGED <<file, keys>>

Kill ==
  /\ ~ Idle
  /\ faults < MaxFaults
  /\ faults' = faults + 1
  /\ command' = NoCommand
  /\ UNCHANGED <<file, keys>>

Command == InitCA \/ (\E n \in Name : NewCert(n)) \/ Create \/ Encode
             \/ SaveFails \/ Kill

-----------------------------------------------------------------------------
(* Properties. *)

SameKey(key, crt) ==
  /\ file[key].type = "key" <=> file[crt].type = "certificate"
  /\ file[key].key = file[crt].key

\* As long as no save failed and no command was killed, the key of every name
\* belongs to its certificate, and the authority's to its own, however often
\* they were made anew.
KeysFitCertificates ==
  Idle /\ faults = 0 =>
    /\ \A n \in Name : SameKey(Key(n), Crt(n))
    /\ SameKey(CaKey, CaCrt)
=============================================================================
