------------------------------ MODULE Accounts ------------------------------
\* The accounts screen and what it changes: the accounts of the config file,
\* their credentials and the database (tui/flow_admin.go, tui/backend.go,
\* tui/backend_admin.go, config/edit.go, creds). A command that edits the config
\* file goes on place by place, beside the others and without a lock; the rest of
\* the backend's calls take effect in the step that ends their command.
EXTENDS Form, Token

CONSTANTS
  NoEntry,
  Handwritten,      \* entries the user writes into the file, or NoEntry
  MaxCommands       \* bound: commands running at once

ASSUME AccountsAssumption ==
  /\ Typed \ {""} \subseteq Names /\ "" \notin Names /\ MaxCommands \in Nat
  /\ NoEntry \notin [domain : Domains, oauth : BOOLEAN]
  /\ Handwritten \subseteq [domain : Domains, oauth : BOOLEAN] \cup {NoEntry}

VARIABLES
  screen,           \* the screen
  acct,             \* m.acct: [name, entry]
  file,             \* the accounts of the config file: [Names -> entry or NoEntry]
  cfg,              \* those of b.cfg, as the file was read last
  startup,          \* names in m.deps.Cfg
  passwords,        \* names with a password file
  troubled,         \* history: names whose entry was edited by overlapping calls,
                    \* by one that stopped half-way, or by hand, since the last
                    \* call that edited it undisturbed
  table,            \* m.accounts: [rows, cursor, question], rows as b.cfg was
  commands,         \* commands running, oldest first
  failed, loaded    \* m.scan.err is set; m.groups holds an account's senders

accountsVars ==
  <<screen, acct, file, cfg, startup, passwords, troubled, table, commands, failed, loaded>>
diskVars == <<file, cfg, passwords, troubled>>

Entries == [domain : Domains, oauth : BOOLEAN]
NoRow == ""
NoEntries == [n \in Names |-> NoEntry]
Present(entries) == {n \in Names : entries[n] # NoEntry}
InFile == Present(file)
Account(n, entries) == [name |-> n, entry |-> entries[n]]
NoAccount == [name |-> NoRow, entry |-> NoEntry]
Entry(f) == [domain |-> f.domain, oauth |-> UseOAuth(f)]

\* A command. One that edits the file has come to a place, with the file's
\* accounts as it read them, and alone as long as nothing else touched them.
Command(kind, n) ==
  [kind |-> kind, of |-> n, entry |-> NoEntry, flag |-> FALSE,
   at |-> "read", seen |-> NoEntries, alone |-> TRUE]
Edits(c) == c.kind \in {"save", "remove"}

Room == Len(commands) < MaxCommands
Run(c, running) == Room /\ commands' = Append(running, c)
Done(i) == RemoveAt(commands, i)

\* An edit that starts while another is under way disturbs it.
Disturbed(names) ==
  [i \in DOMAIN commands |-> [commands[i] EXCEPT !.alone = @ /\ commands[i].of \notin names]]
EditedNow == {commands[i].of : i \in {j \in DOMAIN commands : Edits(commands[j])}}
StartEdit(c) ==
  /\ Run([c EXCEPT !.alone = EditedNow = {}], Disturbed(EditedNow))
  /\ troubled' = IF EditedNow = {} THEN troubled ELSE troubled \cup EditedNow \cup {c.of}

\* The config file opened from the menu, or in any editor.
EditFile(n, e) ==
  /\ file' = [file EXCEPT ![n] = e] /\ commands' = Disturbed({n})
  /\ troubled' = troubled \cup {n}
  /\ UNCHANGED <<formVars, tokenVars, screen, acct, cfg, startup, passwords, table, failed, loaded>>

\* HasCredentials.
HasCredentials(a) ==
  IF a.entry.oauth THEN token[a.name] # NoFile ELSE a.name \in passwords

-----------------------------------------------------------------------------
\* Screens: openAccounts, openSetup with accountNames, startScan.

NoTable == [rows |-> NoEntries, cursor |-> NoRow, question |-> "none"]
OpenAccounts(running) ==
  /\ screen' = "accounts" /\ table' = NoTable
  /\ Run(Command("list", NoRow), running)

AccountNames == IF table.rows # NoEntries THEN Present(table.rows) ELSE startup
OpenForm(mode, a) ==
  /\ screen' = "form" /\ UNCHANGED lookups
  /\ form' = IF mode = "add" THEN NewForm(mode, "", "", FALSE, AccountNames)
             ELSE NewForm(mode, a.name, a.entry.domain, a.entry.oauth, AccountNames)

\* A token that is still good, or a password, is used as it is.
Scan(n, able, running) ==
  /\ screen' = "scan" /\ failed' = FALSE
  /\ Run([Command("scan", n) EXCEPT !.flag = able], running)
StartScan(a) ==
  \/ /\ a.entry.oauth /\ screen' = "scan" /\ failed' = FALSE
     /\ (\E w \in Workers : StartRefresh(w, a.name)) /\ UNCHANGED commands
  \/ Scan(a.name, HasCredentials(a), commands) /\ UNCHANGED tokenVars

-----------------------------------------------------------------------------
\* Keys of the accounts screen: accountsKey, accountsConfirmKey, useAccount.

Asking == table.question # "none"
OnAccount == screen = "accounts" /\ ~Asking /\ table.cursor # NoRow
Row == Account(table.cursor, table.rows)

MoveRow ==
  /\ screen = "accounts" /\ ~Asking
  /\ \E n \in Present(table.rows) : table' = [table EXCEPT !.cursor = n]
  /\ UNCHANGED <<formVars, tokenVars, screen, acct, diskVars, startup, commands, failed, loaded>>
UseAccount ==
  /\ OnAccount /\ acct' = Row /\ loaded' = FALSE
  /\ \/ /\ HasCredentials(Row) /\ StartScan(Row)
        /\ UNCHANGED <<formVars, diskVars, startup, table>>
     \/ /\ ~HasCredentials(Row) /\ OpenForm("edit", Row)
        /\ UNCHANGED <<tokenVars, diskVars, startup, table, commands, failed>>
AddAccount ==
  /\ screen = "accounts" /\ ~Asking /\ OpenForm("add", NoAccount)
  /\ UNCHANGED <<tokenVars, acct, diskVars, startup, table, commands, failed, loaded>>
EditAccount ==
  /\ OnAccount /\ acct' = Row /\ OpenForm("edit", Row)
  /\ UNCHANGED <<tokenVars, diskVars, startup, table, commands, failed, loaded>>

Question(q) ==
  /\ table' = [table EXCEPT !.question = q]
  /\ UNCHANGED <<formVars, tokenVars, screen, acct, file, cfg, startup, passwords, failed, loaded>>
NoCommand == UNCHANGED <<commands, troubled>>
AskAbout(q) == OnAccount /\ Question(q) /\ NoCommand
AnswerFor(yes) ==
  \/ table.question = "remove" /\ yes /\ Question("purge") /\ NoCommand
  \/ table.question \in {"remove", "signout"} /\ ~yes /\ Question("none") /\ NoCommand
  \/ /\ table.question = "signout" /\ yes /\ Question("none")
     /\ Run(Command("signout", table.cursor), commands) /\ UNCHANGED troubled
  \/ /\ table.question = "purge" /\ Question("none")
     /\ StartEdit(Command("remove", table.cursor))
\* The answer is for the row the cursor is on by then, if there is one; the last,
\* whether to drop the scanned data as well, removes the account either way.
Answer(yes) ==
  /\ screen = "accounts" /\ Asking
  /\ \/ table.cursor = NoRow /\ Question("none") /\ NoCommand
     \/ table.cursor # NoRow /\ AnswerFor(yes)

\* A scan that failed: r and s.
Retry ==
  /\ screen = "scan" /\ failed /\ StartScan(acct)
  /\ UNCHANGED <<formVars, acct, diskVars, startup, table, loaded>>
BackToForm ==
  /\ screen = "scan" /\ failed /\ OpenForm("first", acct)
  /\ UNCHANGED <<tokenVars, acct, diskVars, startup, table, commands, failed, loaded>>
LeaveForm ==
  /\ screen = "form" /\ ~form.signingIn
  /\ \/ /\ form.mode # "first" /\ OpenAccounts(commands)
        /\ UNCHANGED <<formVars, tokenVars, acct, diskVars, startup, failed, loaded>>
     \/ /\ form.mode = "first" /\ screen' = "quit"
        /\ UNCHANGED <<formVars, tokenVars, acct, diskVars, startup, table, commands, failed, loaded>>

\* f3 on a form that is not the first: the session's account signs out.
SignOutKey ==
  /\ screen = "form" /\ FormFree /\ form.mode # "first"
  /\ acct # NoAccount /\ token[acct.name] # NoFile
  /\ Run(Command("formout", acct.name), commands)
  /\ UNCHANGED <<formVars, tokenVars, screen, acct, diskVars, startup, table, failed, loaded>>

\* The form's own keys, and the answers of its lookups, which come on any
\* screen: each may start the save.
Save(f) ==
  [Command("save", f.name) EXCEPT !.entry = Entry(f), !.flag = f.mode = "add",
                                  !.at = IF f.mode = "add" THEN "check" ELSE "read"]
Saves == form'.saving /\ ~form.saving
FormStep(Steps) ==
  /\ Steps
  /\ (Saves /\ StartEdit(Save(form'))) \/ (~Saves /\ NoCommand)
  /\ UNCHANGED <<tokenVars, screen, acct, file, cfg, startup, passwords, table, failed, loaded>>
FormKeys == screen = "form" /\ FormStep(FormKey)
LookupAnswered == FormStep(FormAnswers)

-----------------------------------------------------------------------------
\* Commands that end.

\* ListAccounts and onAccountsLoaded: the cursor goes to the session's account;
\* otherwise it is where it was, on whatever row that is now.
ListEnds(i) ==
  /\ commands[i].kind = "list"
  /\ \/ UNCHANGED table
     \/ \E n \in (IF acct.name \in Present(cfg) THEN {acct.name}
                 ELSE IF cfg = NoEntries THEN {NoRow} ELSE Present(cfg)) :
          table' = [table EXCEPT !.rows = cfg, !.cursor = n]
  /\ commands' = Done(i)
  /\ UNCHANGED <<formVars, tokenVars, screen, acct, diskVars, startup, failed, loaded>>

\* accountsChangedMsg: the list is read again unless the call failed.
Changed(i, ok) ==
  /\ commands' = IF ok THEN Append(Done(i), Command("list", NoRow)) ELSE Done(i)
  /\ UNCHANGED <<formVars, screen, acct, startup, table, failed, loaded>>

\* SignOut: the token, then the password; a failure does not stop the other.
SignOutEnds(i) ==
  LET n == commands[i].of
  IN  /\ commands[i].kind \in {"signout", "formout"}
      /\ \E tokenGone, passwordGone \in BOOLEAN :
           /\ token' = IF tokenGone THEN Deleted(n) ELSE token
           /\ passwords' = IF passwordGone THEN passwords \ {n} ELSE passwords
           /\ Changed(i, tokenGone /\ passwordGone /\ commands[i].kind = "signout")
      /\ UNCHANGED <<accepted, issued, spoiled, refreshes, login, file, cfg, troubled>>

\* afterSetup.
AfterSetup(n, running) ==
  \/ form.mode = "first" /\ Scan(n, TRUE, running) /\ UNCHANGED table
  \/ form.mode # "first" /\ OpenAccounts(running) /\ UNCHANGED failed

-----------------------------------------------------------------------------
\* AddAccount and SaveSetup: the check, the entry written into the file, the
\* password, b.cfg read again. RemoveAccount: the entry taken out of the file, the
\* password, the token, the scanned data, b.cfg read again.

Is(i, at) == Edits(commands[i]) /\ commands[i].at = at
Onward(i, c) ==
  /\ commands' = [commands EXCEPT ![i] = c]
  /\ UNCHANGED <<formVars, screen, acct, cfg, startup, table, failed, loaded>>
Proceeds(i, at) == Onward(i, [commands[i] EXCEPT !.at = at])

\* An error, shown on the form that is on screen or on the accounts: once the
\* file is written it leaves the rest as it is.
BeforeWrite == {"check", "read", "write"}
EditFails(i) ==
  LET c == commands[i]
  IN  /\ form' = IF c.kind = "save" THEN [form EXCEPT !.saving = FALSE] ELSE form
      /\ troubled' = IF c.at \in BeforeWrite THEN troubled ELSE troubled \cup {c.of}
      /\ commands' = Done(i)
      /\ UNCHANGED <<lookups, tokenVars, screen, acct, file, startup, passwords, table, failed, loaded>>
CallFails(i) == Edits(commands[i]) /\ ~Is(i, "check") /\ EditFails(i) /\ UNCHANGED cfg

\* Mutant of Refused: the check is the form's alone.
RefusedNever(c) == FALSE
Refused(c) == cfg[c.of] # NoEntry
NameChecked(i) ==
  /\ Is(i, "check")
  /\ \/ Refused(commands[i]) /\ EditFails(i) /\ UNCHANGED cfg
     \/ ~Refused(commands[i]) /\ Proceeds(i, "read") /\ UNCHANGED <<tokenVars, file, passwords, troubled>>

\* UpsertAccount and config.RemoveAccount: readDoc, and writeDoc with what was read.
FileRead(i) ==
  LET c == commands[i]
  IN  /\ Is(i, "read") /\ (c.kind = "remove" => file[c.of] # NoEntry)
      /\ Onward(i, [c EXCEPT !.at = "write", !.seen = file])
      /\ UNCHANGED <<tokenVars, file, passwords, troubled>>
FileWritten(i) ==
  LET c == commands[i]
  IN  /\ Is(i, "write") /\ file' = [c.seen EXCEPT ![c.of] = c.entry]
      /\ Onward(i, [c EXCEPT !.at = "password", !.seen = NoEntries])
      /\ UNCHANGED <<tokenVars, passwords, troubled>>

\* Mutant of AfterPassword: a removal leaves the token.
AfterPasswordSave(c) == "load"
AfterPassword(c) == IF c.kind = "remove" THEN "token" ELSE "load"
PasswordDone(i) ==
  LET c == commands[i]
  IN  /\ Is(i, "password") /\ Proceeds(i, AfterPassword(c))
      /\ passwords' = IF c.kind = "remove" THEN passwords \ {c.of}
                      ELSE IF c.entry.oauth THEN passwords ELSE passwords \cup {c.of}
      /\ UNCHANGED <<tokenVars, file, troubled>>
\* A refresh or a sign-in under way may still store a token.
TokenDropped(i) ==
  LET n == commands[i].of
      late == RefreshOf(n) \/ login.of = n
  IN  /\ Is(i, "token") /\ token' = Deleted(n)
      /\ Onward(i, [commands[i] EXCEPT !.at = "load", !.alone = @ /\ ~late])
      /\ troubled' = IF late THEN troubled \cup {n} ELSE troubled
      /\ UNCHANGED <<accepted, issued, spoiled, refreshes, login, file, passwords>>

FileLoaded(i) ==
  /\ Is(i, "load") /\ Onward(i, [commands[i] EXCEPT !.at = "end", !.seen = file])
  /\ UNCHANGED <<tokenVars, file, passwords, troubled>>
\* onSetupSaved and onAccountsChanged, on whatever form is on screen: an account
\* that is gone from the file again is an error; a sign-in waits for the one
\* before to end.
Saved(i) ==
  LET a == Account(commands[i].of, commands[i].seen)
  IN  /\ a.entry # NoEntry /\ acct' = a
      /\ \/ /\ ~a.entry.oauth /\ AfterSetup(a.name, Done(i)) /\ UNCHANGED <<formVars, tokenVars>>
         \/ /\ a.entry.oauth /\ StartLogin(a.name)
            /\ form' = [form EXCEPT !.saving = FALSE, !.signingIn = TRUE]
            /\ commands' = Done(i) /\ UNCHANGED <<lookups, screen, table, failed>>
      /\ UNCHANGED <<startup, loaded>>
EditEnds(i) ==
  LET c == commands[i]
  IN  /\ Is(i, "end") /\ cfg' = c.seen
      /\ \/ c.kind = "save" /\ c.seen[c.of] = NoEntry /\ EditFails(i)
         \/ /\ \/ c.kind = "save" /\ Saved(i)
               \/ c.kind = "remove" /\ Changed(i, TRUE) /\ UNCHANGED tokenVars
            /\ troubled' = IF c.alone THEN troubled \ {c.of} ELSE troubled
            /\ UNCHANGED <<file, passwords>>
EditStep(i) ==
  \/ CallFails(i) \/ NameChecked(i) \/ FileRead(i) \/ FileWritten(i) \/ PasswordDone(i)
  \/ TokenDropped(i) \/ FileLoaded(i) \/ EditEnds(i)

-----------------------------------------------------------------------------
\* The scan and the sign-in, and every step of the commands.

\* The scan, after a refresh or without one: on to the review, or the error,
\* which the senders' loading shows on the scan's own screen.
ScanOver(ok) ==
  /\ screen' \in IF ok THEN {"review"} ELSE {screen, "scan"}
  /\ failed' = ~ok /\ loaded' = (ok \/ loaded)
  /\ UNCHANGED <<formVars, acct, diskVars, startup, table>>
ScanEnds(i) ==
  /\ commands[i].kind = "scan" /\ commands' = Done(i)
  /\ \E ok \in BOOLEAN : (ok => commands[i].flag) /\ ScanOver(ok)
  /\ UNCHANGED tokenVars
RefreshEnds(w) ==
  /\ \/ RefreshFails(w) /\ ScanOver(FALSE)
     \/ Refreshed(w) /\ \E ok \in BOOLEAN : ScanOver(ok)
  /\ UNCHANGED commands
ProviderAnswers == (\E w \in Workers : Served(w)) /\ UNCHANGED <<formVars, accountsVars>>

\* onOAuthDone.
BrowserReturns ==
  (\E kind \in {"code", "error"} : Callback(kind)) /\ UNCHANGED <<formVars, accountsVars>>
LoginStep ==
  \/ (Deliver \/ Exchange) /\ UNCHANGED <<formVars, accountsVars>>
  \/ /\ LoginFails /\ form' = [form EXCEPT !.signingIn = FALSE]
     /\ UNCHANGED <<lookups, accountsVars>>
  \/ /\ LoginSaved /\ form' = [form EXCEPT !.signingIn = FALSE]
     /\ AfterSetup(acct.name, commands)
     /\ UNCHANGED <<lookups, acct, diskVars, startup, loaded>>

AccountsKey ==
  \/ MoveRow \/ UseAccount \/ AddAccount \/ EditAccount
  \/ (\E q \in {"signout", "remove"} : AskAbout(q)) \/ (\E yes \in BOOLEAN : Answer(yes))
  \/ Retry \/ BackToForm \/ LeaveForm \/ SignOutKey
CommandStep == \E i \in DOMAIN commands : ListEnds(i) \/ SignOutEnds(i) \/ EditStep(i)

-----------------------------------------------------------------------------
\* Properties.

AccountsTypeOK ==
  /\ screen \in {"accounts", "form", "scan", "review", "quit"}
  /\ passwords \subseteq Names /\ troubled \subseteq Names
  /\ table.cursor # NoRow => table.rows[table.cursor] # NoEntry
  /\ \A i \in DOMAIN commands : commands[i].kind # "list" => commands[i].of \in Names

\* Adding an account never changes one that is in the config file under that
\* name, and no save or removal changes or drops another account, whatever the
\* form's list of names held when it was opened. Excepted are entries that were
\* edited by overlapping calls, by a call that stopped half-way, or by hand.
Edited(n) ==
  \E i \in DOMAIN commands :
    /\ Edits(commands[i]) /\ commands[i].of = n
    /\ commands[i].kind = "save" => ~commands[i].flag
AddNeverReplaces ==
  [][\A n \in Names :
       file[n] # NoEntry /\ file'[n] # file[n] => Edited(n) \/ n \in troubled']_accountsVars

\* What was removed leaves no credential behind, so that the next account of
\* that name never signs in with it (RemoveAccount). Excepted are the same, and
\* an account a refresh or a sign-in was under way for.
RemovalOf(n, places) ==
  \E i \in DOMAIN commands :
    commands[i].kind = "remove" /\ commands[i].of = n /\ commands[i].at \in places
NothingLeftBehind ==
  \A n \in Names \ troubled : file[n] = NoEntry =>
    /\ n \in passwords => RemovalOf(n, {"password"})
    /\ token[n] # NoFile => RemovalOf(n, {"password", "token"})

\* What the comment of SaveSetup says: adding or editing an account never disturbs
\* the others, so that a save leaves every other entry as it is in the file.
OthersKept ==
  [][\A i \in DOMAIN commands :
       commands[i].kind = "save" /\ FileWritten(i)
         => \A n \in Names \ {commands[i].of} : file'[n] = file[n]]_accountsVars

\* What the comment of Backend.AddAccount says: the accounts that are in the file
\* stay, and the name of the new one must be unused.
AddedNew ==
  [][\A i \in DOMAIN commands :
       commands[i].flag /\ Edits(commands[i]) /\ FileWritten(i)
         => file[commands[i].of] = NoEntry]_accountsVars

\* What the form says after a cancelled sign-in (onOAuthDone), that enter tries
\* again: an account that was added in this session and is the one in use is not
\* refused for being there.
RetryTaken ==
  [][\A i \in DOMAIN commands :
       commands[i].of = acct.name /\ acct.name \notin startup /\ NameChecked(i)
         => Len(commands') = Len(commands)]_accountsVars

-----------------------------------------------------------------------------
\* What the properties rest on.

Kinds == {"list", "scan", "signout", "formout", "remove", "save"}
Places == {"check", "read", "write", "password", "token", "load", "end"}
Commands ==
  {c \in [kind : Kinds, of : Names \cup {NoRow}, entry : Entries \cup {NoEntry}, flag : BOOLEAN,
          at : Places, seen : [Names -> Entries \cup {NoEntry}], alone : BOOLEAN] :
     /\ c.kind # "list" => c.of \in Names
     /\ c.kind = "save" => c.entry \in Entries /\ c.at # "token"
     /\ c.kind = "remove" => c.entry = NoEntry /\ c.at # "check"}
RecordsInv ==
  /\ AccountsTypeOK
  /\ {file, cfg} \subseteq [Names -> Entries \cup {NoEntry}] /\ startup \subseteq Names
  /\ table \in [rows : [Names -> Entries \cup {NoEntry}], cursor : Names \cup {NoRow},
                question : {"none", "signout", "remove", "purge"}]
  /\ commands \in Seq(Commands) /\ form \in FormRecords(Names)

\* A session without an account has never scanned, signed in or refreshed.
AccountInv ==
  /\ acct = NoAccount \/ acct \in [name : Names, entry : Entries]
  /\ acct = NoAccount =>
       /\ screen # "scan" /\ login = NoLogin /\ \A w \in Workers : refreshes[w] = Idle
       /\ commands \in Seq({c \in Commands : c.kind # "scan"})

\* An edit that runs alone has done what its place says. What any edit has read
\* is the file still, but for the names that are troubled.
Progress(c) ==
  /\ c.at \in {"password", "token", "load", "end"} => file[c.of] = c.entry
  /\ c.at = "end" => c.seen[c.of] = c.entry
  /\ c.kind = "remove" /\ c.at \in {"token", "load", "end"} => c.of \notin passwords
  /\ c.kind = "remove" /\ c.at \in {"load", "end"} =>
       token[c.of] = NoFile /\ ~RefreshOf(c.of) /\ login.of # c.of
EditInv(c) ==
  /\ ~c.alone => c.of \in troubled
  /\ c.alone => Progress(c)
  /\ c.at \in {"write", "end"} =>
       \A m \in Names \ troubled : c.seen[m] = file[m] \/ (c.at = "write" /\ m = c.of)
  /\ c.kind = "save" /\ c.flag /\ c.at \in {"read", "write"} =>
       c.of \in troubled \/ file[c.of] = NoEntry
EditsInv ==
  /\ \A i \in DOMAIN commands : Edits(commands[i]) => EditInv(commands[i])
  /\ \A i, j \in DOMAIN commands :
       i # j /\ Edits(commands[i]) /\ Edits(commands[j]) => ~commands[i].alone

\* b.cfg has every account of the file but one whose save has yet to read it
\* again, and what works with an account's credentials works with one of the
\* file, or one whose removal has yet to drop the token.
SaveOf(n, places) ==
  \E i \in DOMAIN commands :
    commands[i].kind = "save" /\ commands[i].of = n /\ commands[i].at \in places
ListedInv ==
  \A n \in Names \ troubled :
    file[n] # NoEntry => cfg[n] # NoEntry \/ SaveOf(n, {"password", "load", "end"})
NobodysInv ==
  \A n \in Names \ troubled : file[n] = NoEntry =>
    (RefreshOf(n) \/ login.of = n => RemovalOf(n, {"password", "token"}))
AccountsInv ==
  RecordsInv /\ AccountInv /\ EditsInv /\ ListedInv /\ NothingLeftBehind /\ NobodysInv
=============================================================================
