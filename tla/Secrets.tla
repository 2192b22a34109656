-------------------------------- MODULE Secrets --------------------------------
(***************************************************************************)
(* artifact cookies and artifact logins with --keys (cli.rs, dispatch_     *)
(* cookies, dispatch_logins; keys.rs; browser-forensic-decrypt): keys are  *)
(* looked for under the path that is named, and nowhere else but in the    *)
(* Keychain of the Mac the program runs on; with what is found each value  *)
(* is decrypted, or said not to be; a password goes into a file, and never *)
(* to the terminal.                                                        *)
(*                                                                         *)
(* A ciphertext is what it was made from: a scheme, a key and a plaintext. *)
(* Only CBC, of Macs and of Firefox, may turn what another key made into   *)
(* Garbage; GCM and a wrapped key are known to fail.                       *)
(***************************************************************************)
EXTENDS Integers, Sequences, FiniteSets, EvidenceTree

CONSTANTS CookiesGiven, LoginsGiven,   \* what may be asked, of which evidence
          KEYS_MAX_DEPTH

\* The rows come in an order, and no cookie's host is the one that stands for none.
ASSUME SecretsAssumption ==
    /\ KEYS_MAX_DEPTH \in Nat
    /\ \A w \in CookiesGiven \cup LoginsGiven :
          /\ w.rows \in Seq({w.rows[i] : i \in DOMAIN w.rows})
          /\ w.artifact = "cookies" => \A i \in DOMAIN w.rows : w.rows[i].host # "none"

VARIABLES wanted,        \* what is asked, and of which evidence
          phase,         \* where the run is
          unlocked,      \* the key, its scheme and the files it is from
          locked,        \* rows still to be decrypted
          revealed,      \* records with what they were decrypted to
          terminal,      \* records printed
          secretsFile,   \* passwords written
          keyedManifest  \* the sources and what was decrypted with them

secretVars == <<wanted, phase, unlocked, locked, revealed, terminal, secretsFile, keyedManifest>>

\* A value, and the host whose hash stands before it.
Unbound(text) == [text |-> text, boundTo |-> "none"]
Garbage == Unbound("garbage")
DecryptFailed == Unbound("DECRYPT_FAILED")
NotDecrypted == Unbound("(not decrypted)")
SECRET_PLACEHOLDER == Unbound("[decrypted]")
NoKey == [scheme |-> "none", key |-> "none", from |-> {}]
Unwritten == [made |-> FALSE]

-----------------------------------------------------------------------------
(* Which keys there are. *)

CollectFilesWithin(root) == FilesWithin(root, KEYS_MAX_DEPTH)

NamedAs(root, name) == {n \in CollectFilesWithin(root) : root[n].name = name}
WrappedStates(root) ==
    {n \in NamedAs(root, "Local State") : root[n].reads /\ root[n].holds.wrapped}
MasterkeyCandidates(root) ==
    {n \in NamedAs(root, "GUID") : \E up \in Above(root, n) \ {Root} : root[up].name = "Protect"}
SidOf(root, n) == IF root[n].in = Root THEN "none" ELSE root[root[n].in].name

\* A master key comes out for its user and password, and unwraps the key that it wrapped.
Unwraps(root, n, state, password) ==
    LET file == root[n].holds
    IN  /\ root[n].reads /\ file.sid = SidOf(root, n) /\ file.password = password
        /\ file.masterkey = root[state].holds.by

Locked(key, scheme, from, rows) ==
    /\ unlocked' = [key |-> key, scheme |-> scheme, from |-> from]
    /\ locked' = rows /\ phase' = "decrypting"
Fails == phase' = "failed" /\ UNCHANGED <<unlocked, locked>>

\* Of the states with a wrapped key only the first counts, of its master keys the first that
\* unwraps it.
ResolveWindows(root) ==
    LET state == FirstOf(WrappedStates(root))
        fitting == {n \in MasterkeyCandidates(root) : Unwraps(root, n, state, wanted.password)}
    IN  IF fitting = {} \/ ~wanted.opens THEN Fails
        ELSE Locked(root[state].holds.key, "GCM", {state, FirstOf(fitting)}, wanted.rows)
ResolveMacos(root) ==
    IF wanted.keychain = "none" \/ ~wanted.opens THEN Fails
    ELSE Locked(wanted.keychain, "CBC", {}, wanted.rows)

ResolveChromiumKeys ==
    /\ phase = "start" /\ wanted.artifact = "cookies"
    /\ IF WrappedStates(wanted.root) # {} THEN ResolveWindows(wanted.root)
       ELSE IF NamedAs(wanted.root, "Local State") # {} THEN ResolveMacos(wanted.root)
       ELSE Fails
    /\ UNCHANGED <<wanted, revealed, terminal, secretsFile, keyedManifest>>

\* The first key database, whatever profile the logins are of; the password is checked.
LocateFirefoxKey4 ==
    /\ phase = "start" /\ wanted.artifact = "logins"
    /\ LET found == NamedAs(wanted.root, "key4.db")
       IN  IF found = {} \/ ~wanted.opens THEN Fails
           ELSE LET key4 == wanted.root[FirstOf(found)]
                IN  IF key4.reads /\ key4.holds.password = wanted.password
                    THEN Locked(key4.holds.key, "CBC", {FirstOf(found)}, wanted.rows)
                    ELSE Fails
    /\ UNCHANGED <<wanted, revealed, terminal, secretsFile, keyedManifest>>

-----------------------------------------------------------------------------
(* What they open. *)

\* What a ciphertext may be decrypted to.
Plaintexts(row, plain) ==
    IF row.scheme = unlocked.scheme /\ row.key = unlocked.key THEN {plain}
    ELSE IF row.scheme \in {"GCM", "CBC"} /\ unlocked.scheme = "CBC"
    THEN {DecryptFailed, Garbage}
    ELSE {DecryptFailed}

\* Mistake: whatever stands before a value is taken off.
StripsWhatever(plain, host) ==
    [value |-> Unbound(plain.text), bound |-> plain.boundTo # "none"]

\* A value is bound to its host when it begins with the host's hash, which is taken off.
StripDomainHashPrefix(plain, host) ==
    IF plain.boundTo = host THEN [value |-> Unbound(plain.text), bound |-> TRUE]
    ELSE [value |-> plain, bound |-> FALSE]

\* A row without a time is not asked for, and one of another type fails the run.
DecryptCookie ==
    /\ phase = "decrypting" /\ wanted.artifact = "cookies" /\ locked # <<>>
    /\ locked' = Tail(locked)
    /\ LET row == Head(locked)
       IN  IF row.sound
           THEN /\ \E plain \in Plaintexts(row, row.plain) :
                      LET clean == StripDomainHashPrefix(plain, row.host)
                      IN  revealed' = Append(revealed, [row |-> row, value |-> clean.value,
                                                        bound |-> clean.bound])
                /\ UNCHANGED phase
           ELSE phase' = "failed" /\ UNCHANGED revealed
    /\ UNCHANGED <<wanted, unlocked, terminal, secretsFile, keyedManifest>>

\* A login that lacks a field is passed over; one that does not decrypt fails them all.  The
\* password is only decrypted for the file.
DecryptLogin ==
    /\ phase = "decrypting" /\ wanted.artifact = "logins" /\ locked # <<>>
    /\ locked' = Tail(locked)
    /\ LET row == Head(locked)
           passwords == IF wanted.reveal THEN Plaintexts(row, row.password) ELSE {NotDecrypted}
       IN  IF ~row.sound THEN UNCHANGED <<revealed, phase>>
           ELSE \E user \in Plaintexts(row, row.plain), password \in passwords :
                   IF DecryptFailed \in {user, password}
                   THEN phase' = "failed" /\ UNCHANGED revealed
                   ELSE /\ revealed' = Append(revealed, [row |-> row, user |-> user,
                                                         value |-> password])
                        /\ UNCHANGED phase
    /\ UNCHANGED <<wanted, unlocked, terminal, secretsFile, keyedManifest>>

-----------------------------------------------------------------------------
(* What is shown of it. *)

Decrypted(records) == {k \in DOMAIN records : records[k].value # DecryptFailed}

\* How many were decrypted is counted for the manifest; the lines are printed by time.
PrintCookies ==
    /\ phase = "decrypting" /\ wanted.artifact = "cookies" /\ locked = <<>>
    /\ terminal' = revealed /\ phase' = "printed"
    /\ UNCHANGED <<wanted, unlocked, locked, revealed, secretsFile, keyedManifest>>

\* The file is written, which may fail, before anything is printed.
WriteSecretsFile ==
    /\ phase = "decrypting" /\ wanted.artifact = "logins" /\ locked = <<>> /\ wanted.reveal
    /\ ~secretsFile.made
    /\ \/ secretsFile' = [made |-> TRUE, whole |-> TRUE, lines |-> revealed] /\ UNCHANGED phase
       \/ secretsFile' = [made |-> TRUE, whole |-> FALSE, lines |-> <<>>] /\ phase' = "failed"
    /\ UNCHANGED <<wanted, unlocked, locked, revealed, terminal, keyedManifest>>

RedactLoginPasswords(records) ==
    [k \in DOMAIN records |-> [records[k] EXCEPT !.value = SECRET_PLACEHOLDER]]
PrintLogins ==
    /\ phase = "decrypting" /\ wanted.artifact = "logins" /\ locked = <<>>
    /\ wanted.reveal => secretsFile.made
    /\ terminal' = RedactLoginPasswords(revealed) /\ phase' = "printed"
    /\ UNCHANGED <<wanted, unlocked, locked, revealed, secretsFile, keyedManifest>>

WriteKeyedManifest ==
    /\ phase = "printed"
    /\ \/ /\ phase' = "done"
          /\ keyedManifest' = [made |-> TRUE, sources |-> unlocked.from,
                               decrypted |-> Cardinality(Decrypted(revealed))]
       \/ phase' = "failed" /\ UNCHANGED keyedManifest
    /\ UNCHANGED <<wanted, unlocked, locked, revealed, terminal, secretsFile>>

-----------------------------------------------------------------------------

NothingWanted ==
    [artifact |-> "cookies", root |-> <<>>, password |-> "none", keychain |-> "none",
     opens |-> TRUE, reveal |-> FALSE, rows |-> <<>>]

SecretsInit ==
    /\ wanted \in CookiesGiven \cup LoginsGiven \cup {NothingWanted}
    /\ phase = "start" /\ unlocked = NoKey /\ locked = <<>> /\ revealed = <<>>
    /\ terminal = <<>> /\ secretsFile = Unwritten /\ keyedManifest = Unwritten

SecretsNext ==
    ResolveChromiumKeys \/ LocateFirefoxKey4 \/ DecryptCookie \/ DecryptLogin \/ PrintCookies
    \/ WriteSecretsFile \/ PrintLogins \/ WriteKeyedManifest
SecretsSpec == SecretsInit /\ [][SecretsNext]_secretVars

-----------------------------------------------------------------------------

\* A value is what the browser stored, or is made of it with a key that is not the row's.
IsOf(value, plain, row) ==
    \/ value \in {plain, DecryptFailed}
    \/ /\ value = Garbage /\ unlocked.scheme = "CBC"
       /\ unlocked.key # row.key \/ row.scheme # "CBC"

\* What is shown as decrypted is what the browser stored; a cookie is called bound to its host
\* only if its value was stored for that host, and else shown with what stands before it; the
\* manifest names the files of the key that opened it and counts what was decrypted of what is
\* printed; and a password is in the file that was asked for and nowhere else (cli.rs
\* 3321-3326, 3689-3695, 3720-3723).
SecretsAreGenuine ==
    /\ \A k \in DOMAIN terminal :
          LET r == terminal[k]
          IN  IF wanted.artifact = "logins"
              THEN r.value = SECRET_PLACEHOLDER /\ IsOf(r.user, r.row.plain, r.row)
              ELSE IF r.bound
              THEN r.value = Unbound(r.row.plain.text) /\ r.row.plain.boundTo = r.row.host
              ELSE IsOf(r.value, r.row.plain, r.row)
    /\ phase \notin {"printed", "done", "failed"} => terminal = <<>>
    /\ secretsFile.made =>
          /\ wanted.reveal
          /\ \A k \in DOMAIN secretsFile.lines :
                LET r == secretsFile.lines[k] IN IsOf(r.value, r.row.password, r.row)
    /\ keyedManifest.made =>
          /\ keyedManifest.sources = unlocked.from
          /\ keyedManifest.decrypted =
                Cardinality({k \in DOMAIN terminal : terminal[k].value # DecryptFailed})

=============================================================================
