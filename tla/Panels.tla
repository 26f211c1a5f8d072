------------------------------- MODULE Panels -------------------------------
(***************************************************************************)
(* The servers with a WHM panel as administrators keep them, and what is     *)
(* read from the panels (server.service.ts, whm-api-client.ts): a server is  *)
(* entered, edited, copied, deleted, its connection tried, its accounts      *)
(* counted; the usage of an account is refreshed by the client or the usage  *)
(* run (service-client.service.ts, usage-sync.scheduler.ts), and a mailbox   *)
(* made. A request reads, calls the panel and writes in steps of its own.    *)
(*                                                                          *)
(* One panel and one hosting account stand for all. Left out: what a         *)
(* request carries and what the panel's answers look like.                   *)
(***************************************************************************)
EXTENDS Integers, FiniteSets

CONSTANTS
    Machines, NoMachine,    \* _ids of server documents
    Hosts, NoHost,  \* host names; NoHost marks a document that is not there
    Tokens, NoToken,    \* API tokens
    Desks,          \* requests under way
    MaxAccounts     \* bound: accounts of the panel, and its measure of usage

PanelNulls == NoMachine \notin Machines /\ NoHost \notin Hosts /\ NoToken \notin Tokens
PanelBounds == MaxAccounts \in Nat

VARIABLES
    machine,        \* the server documents
    panel,          \* the WHM server: the token it accepts, its accounts, the usage of ours
    desk,           \* what each request under way has read
    measure,       \* HostingServiceDetails.usageSnapshot of our account
    mailbox         \* a mailbox: whether the panel has it, and what the client was told

panelVars == <<machine, panel, desk, measure, mailbox>>

Blank == [host |-> NoHost, token |-> NoToken, password |-> FALSE, status |-> "none", accounts |-> -1, packages |-> "none"]
Machine == [host : Hosts \cup {NoHost}, token : Tokens \cup {NoToken}, password : BOOLEAN,
            status : {"none", "success", "failed"}, accounts : -1..MaxAccounts, packages : {"none", "listed", "empty"}]
Away == [at |-> "idle", id |-> NoMachine, doc |-> Blank]

PanelTypeOK ==
    /\ machine \in [Machines -> Machine]
    /\ \A m, n \in Machines : machine[m].host = machine[n].host => m = n \/ machine[m].host = NoHost
    /\ panel \in [accepts : Tokens, accounts : 0..MaxAccounts, used : 0..MaxAccounts]
    /\ \A d \in Desks :
        /\ desk[d].at \in {"idle", "copying", "named", "checked", "merging", "testing", "tested", "counting", "listing",
                           "counted", "measuring", "measured", "mailing"}
        /\ desk[d].id \in Machines \cup {NoMachine} /\ desk[d].doc \in Machine
    /\ measure \in -1..MaxAccounts
    /\ mailbox \in [exists : BOOLEAN, told : {"none", "made", "error"}]

Quiet ==
    /\ panel \in [accepts : Tokens, accounts : {0}, used : {0}]
    /\ desk = [d \in Desks |-> Away] /\ measure = -1 /\ mailbox = [exists |-> FALSE, told |-> "none"]

PanelInit == machine = [m \in Machines |-> Blank] /\ Quiet

\* A later state: one server is entered.
PanelBegun ==
    /\ \E m \in Machines, h \in Hosts, t \in Tokens : machine = [[n \in Machines |-> Blank] EXCEPT ![m].host = h, ![m].token = t]
    /\ Quiet

-----------------------------------------------------------------------------
Entered(m) == machine[m].host # NoHost

Unclaimed(h) == \A m \in Machines : machine[m].host # h

At(d, step, m, doc) == desk' = [desk EXCEPT ![d] = [at |-> step, id |-> m, doc |-> doc]]
Leave(d) == At(d, "idle", NoMachine, Blank)

\* The client of a panel is built from the document's token, and without one there is none.
TokenOf(m) == machine[m].token

\* A call: the panel answers a token it accepts; any call may fail or time out as well.
Works(token) == token = panel.accepts

Unless(m, doc) == IF Entered(m) THEN [machine EXCEPT ![m] = doc] ELSE machine

-----------------------------------------------------------------------------
(* Entering and editing.                                                    *)

\* createServer looks whether the host name is taken.
EnterHost(d, h, t) ==
    /\ desk[d].at = "idle" /\ Unclaimed(h)
    /\ At(d, "checked", NoMachine, [Blank EXCEPT !.host = h, !.token = t])
    /\ UNCHANGED <<machine, panel, measure, mailbox>>

\* Server.create; the unique index refuses a name taken since.
InsertMachine(d) ==
    /\ desk[d].at = "checked" /\ Leave(d)
    /\ IF Unclaimed(desk[d].doc.host)
       THEN \E m \in Machines : ~Entered(m) /\ machine' = [machine EXCEPT ![m] = desk[d].doc]
       ELSE UNCHANGED machine
    /\ UNCHANGED <<panel, measure, mailbox>>

\* duplicateServer: token and password are select:false, so the copy has neither; the rest comes along.
CopyOf(m) == [machine[m] EXCEPT !.token = NoToken, !.password = FALSE]

ReadOriginal(d, m) ==
    /\ desk[d].at = "idle" /\ Entered(m) /\ At(d, "copying", m, CopyOf(m))
    /\ UNCHANGED <<machine, panel, measure, mailbox>>

NameMachine(d, h) ==
    /\ desk[d].at = "copying" /\ h # desk[d].doc.host /\ Unclaimed(h)
    /\ At(d, "named", desk[d].id, [desk[d].doc EXCEPT !.host = h])
    /\ UNCHANGED <<machine, panel, measure, mailbox>>

\* ... and createServer looks again.
FindHost(d) ==
    /\ desk[d].at = "named"
    /\ IF Unclaimed(desk[d].doc.host) THEN At(d, "checked", desk[d].id, desk[d].doc) ELSE Leave(d)
    /\ UNCHANGED <<machine, panel, measure, mailbox>>

RenameMachine(m, h) ==
    /\ Entered(m) /\ Unclaimed(h) /\ machine' = [machine EXCEPT ![m].host = h]
    /\ UNCHANGED <<panel, desk, measure, mailbox>>

\* updateServer replaces the whole module: the password is the form's, even if that is none.
SaveApiToken(m, t, password) ==
    /\ Entered(m) /\ machine' = [machine EXCEPT ![m].token = t, ![m].password = password]
    /\ UNCHANGED <<panel, desk, measure, mailbox>>

\* A form without a token: the stored one is read first and written back with the rest.
ReadToken(d, m) ==
    /\ desk[d].at = "idle" /\ Entered(m) /\ At(d, "merging", m, [Blank EXCEPT !.token = TokenOf(m)])
    /\ UNCHANGED <<machine, panel, measure, mailbox>>

\* Mistake: the form's blank is written over it.
CarriedNever(d) == NoToken
Carried(d) == desk[d].doc.token

SaveModule(d, password) ==
    /\ desk[d].at = "merging" /\ Leave(d)
    /\ machine' = Unless(desk[d].id, [machine[desk[d].id] EXCEPT !.token = Carried(d), !.password = password])
    /\ UNCHANGED <<panel, measure, mailbox>>

\* The services of a deleted server keep its id.
DeleteMachine(m) ==
    /\ Entered(m) /\ machine' = [machine EXCEPT ![m] = Blank]
    /\ UNCHANGED <<panel, desk, measure, mailbox>>

EditNext == \/ \E d \in Desks, h \in Hosts, t \in Tokens \cup {NoToken} : EnterHost(d, h, t)
            \/ \E d \in Desks, m \in Machines : ReadOriginal(d, m) \/ ReadToken(d, m)
            \/ \E d \in Desks, h \in Hosts : NameMachine(d, h)
            \/ \E d \in Desks : InsertMachine(d) \/ FindHost(d) \/ \E password \in BOOLEAN : SaveModule(d, password)
            \/ \E m \in Machines : \/ DeleteMachine(m) \/ \E h \in Hosts : RenameMachine(m, h)
                                   \/ \E t \in Tokens, password \in BOOLEAN : SaveApiToken(m, t, password)

-----------------------------------------------------------------------------
(* Calling the panel. *)

\* testWhmConnection: without a client the check has failed already.
StartTest(d, m) ==
    /\ desk[d].at = "idle"
    /\ At(d, IF TokenOf(m) = NoToken THEN "tested" ELSE "testing", m,
          [Blank EXCEPT !.token = TokenOf(m), !.status = IF TokenOf(m) = NoToken THEN "failed" ELSE "none"])
    /\ UNCHANGED <<machine, panel, measure, mailbox>>

AnswerTest(d) ==
    /\ desk[d].at = "testing"
    /\ \E status \in {"failed"} \cup {s \in {"success"} : Works(desk[d].doc.token)} :
           At(d, "tested", desk[d].id, [Blank EXCEPT !.status = status])
    /\ UNCHANGED <<machine, panel, measure, mailbox>>

WriteTest(d) ==
    /\ desk[d].at = "tested" /\ Leave(d)
    /\ machine' = Unless(desk[d].id, [machine[desk[d].id] EXCEPT !.status = desk[d].doc.status])
    /\ UNCHANGED <<panel, measure, mailbox>>

\* syncAccountCount: a failed count ends it; the client is built again for the packages.
StartSync(d, m) ==
    /\ desk[d].at = "idle" /\ Entered(m) /\ At(d, "counting", m, [Blank EXCEPT !.token = TokenOf(m)])
    /\ UNCHANGED <<machine, panel, measure, mailbox>>

CountAccounts(d) ==
    /\ desk[d].at = "counting"
    /\ \/ /\ Works(desk[d].doc.token)
          /\ At(d, "listing", desk[d].id, [desk[d].doc EXCEPT !.accounts = panel.accounts, !.token = TokenOf(desk[d].id)])
       \/ Leave(d)
    /\ UNCHANGED <<machine, panel, measure, mailbox>>

\* The error of listWhmPackages is not looked at: a failure counts as no packages.
ListPackages(d) ==
    /\ desk[d].at = "listing"
    /\ \E packages \in {"empty"} \cup {p \in {"listed"} : Works(desk[d].doc.token)} :
           At(d, "counted", desk[d].id, [desk[d].doc EXCEPT !.packages = packages, !.token = NoToken])
    /\ UNCHANGED <<machine, panel, measure, mailbox>>

WriteSync(d) ==
    /\ desk[d].at = "counted" /\ Leave(d)
    /\ machine' = Unless(desk[d].id, [machine[desk[d].id] EXCEPT !.accounts = desk[d].doc.accounts,
                                                                 !.packages = desk[d].doc.packages])
    /\ UNCHANGED <<panel, measure, mailbox>>

\* refreshHostingUsage, and one item of the usage run: the context, the panel's measure, the write.
HostingContext(d, m, step) ==
    /\ desk[d].at = "idle" /\ TokenOf(m) # NoToken /\ At(d, step, m, [Blank EXCEPT !.token = TokenOf(m)])
    /\ UNCHANGED <<machine, panel, measure, mailbox>>

\* An account the panel does not list is measured as zero.
Measure(d) ==
    /\ desk[d].at = "measuring"
    /\ \/ /\ Works(desk[d].doc.token)
          /\ At(d, "measured", desk[d].id, [Blank EXCEPT !.accounts = IF panel.accounts = 0 THEN 0 ELSE panel.used])
       \/ Leave(d)
    /\ UNCHANGED <<machine, panel, measure, mailbox>>

WriteUsage(d) ==
    /\ desk[d].at = "measured" /\ Leave(d) /\ measure' = desk[d].doc.accounts
    /\ UNCHANGED <<machine, panel, mailbox>>

\* createHostingEmailAccount: the panel refuses a second one; a timeout may hide one that was made.
MakeMailbox(d) ==
    /\ desk[d].at = "mailing" /\ Leave(d)
    /\ \/ mailbox' = [mailbox EXCEPT !.told = "error"]
       \/ /\ Works(desk[d].doc.token) /\ ~mailbox.exists
          /\ \E told \in {"made", "error"} : mailbox' = [exists |-> TRUE, told |-> told]
    /\ UNCHANGED <<machine, panel, measure>>

\* The panel's own life: tokens are replaced there, accounts come, usage grows.
PanelChanges ==
    /\ \/ \E t \in Tokens : panel' = [panel EXCEPT !.accepts = t]
       \/ panel.accounts < MaxAccounts /\ panel' = [panel EXCEPT !.accounts = @ + 1]
       \/ panel.used < MaxAccounts /\ panel' = [panel EXCEPT !.used = @ + 1]
    /\ UNCHANGED <<machine, desk, measure, mailbox>>

CallNext == \/ \E d \in Desks, m \in Machines : StartTest(d, m) \/ StartSync(d, m) \/ HostingContext(d, m, "measuring")
                                                  \/ HostingContext(d, m, "mailing")
            \/ \E d \in Desks : AnswerTest(d) \/ WriteTest(d) \/ CountAccounts(d) \/ ListPackages(d) \/ WriteSync(d)
                                  \/ Measure(d) \/ WriteUsage(d) \/ MakeMailbox(d)
            \/ PanelChanges

\* What an administrator does at a panel that is in use.
MeanwhileNext == \E m \in Machines : DeleteMachine(m) \/ \E t \in Tokens : SaveApiToken(m, t, FALSE)

PanelNext == EditNext \/ CallNext

PanelSpec == PanelInit /\ [][PanelNext]_panelVars

-----------------------------------------------------------------------------
(* A server that can be called stays so: an edit whose form shows no token   *)
(* keeps the one stored (updateServer), unless it looked before any was      *)
(* there and another administrator gave the first in between.                *)
TokenStep ==
    \A m \in Machines : Entered(m) /\ TokenOf(m) # NoToken /\ Entered(m)' /\ TokenOf(m)' = NoToken =>
        \E d \in Desks : desk[d].at = "merging" /\ desk[d].id = m /\ desk[d].doc.token = NoToken /\ desk'[d].at = "idle"
TokenKept == [][TokenStep]_panelVars
=============================================================================
