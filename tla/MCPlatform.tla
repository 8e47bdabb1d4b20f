------------------------------ MODULE MCPlatform ------------------------------
(* Small instances of Platform for TLC: scenarios of a few operations each. *)
EXTENDS Platform

CONSTANTS o1, o2, a1, a2, a3, r1, r2, r3, s1, s2, t1, x1, x2, x3, f1, m1, th1, g1, id1,
          e1, e2, e3

NoRows == <<>>
MCQuota == [attachment |-> 1, lead |-> 11]
MCGrants == {{"user.read"}, {"lead.read", "lead.create"}}

Org == [active |-> TRUE, demo |-> FALSE, expires |-> 0, sender |-> TRUE]
Account(email, role) == [org |-> o1, email |-> email, status |-> "ACTIVE", password |-> 1,
                         roles |-> {role}]
Role(name) == [org |-> o1, name |-> name, system |-> TRUE, permissions |-> {}]
Session(account) == [account |-> account, expires |-> 2, revoked |-> FALSE, password |-> 1,
                     raced |-> FALSE]

\* An organization with an owner who is signed in.
Empty ==
    [runtime |-> "production", today |-> 0, gone |-> {}, rates |-> NoRows, orgs |-> o1 :> Org,
     accounts |-> a1 :> Account(e1, r1), roles |-> r1 :> Role("Owner"),
     sessions |-> s1 :> Session(a1), resets |-> NoRows, invitations |-> NoRows,
     entities |-> NoRows, attachments |-> NoRows, stored |-> {}, reserved |-> NoRows,
     lock |-> None, lapses |-> 0, records |-> NoRows, templates |-> NoRows,
     mailboxes |-> NoRows, server |-> NoRows, messages |-> NoRows, threads |-> NoRows,
     mailJobs |-> NoRows, syncs |-> NoRows, mailFiles |-> NoRows]

\* And a colleague, of any role.
WithColleague(tables, role) ==
    [tables EXCEPT !.roles = r2 :> Role(role) @@ @, !.accounts = a2 :> Account(e2, r2) @@ @]
BothSignedIn(role) == [WithColleague(Empty, role) EXCEPT !.sessions = s2 :> Session(a2) @@ @]

Entity(kind, within, email) ==
    [org |-> o1, kind |-> kind, archived |-> FALSE, within |-> within, email |-> email]

\* One after another, unless `Together`.
Calling(ops, calls) == [ops |-> ops, calls |-> calls, faults |-> 0, days |-> 0, serial |-> TRUE]
Together(ops, calls) == [Calling(ops, calls) EXCEPT !.serial = FALSE]
Scenario(tables, environment) == [db |-> tables, env |-> environment]
Failing(environment, faults) == [environment EXCEPT !.faults = faults]
Lasting(environment, days) == [environment EXCEPT !.days = days]

-----------------------------------------------------------------------------
(* Accounts *)

SigningIn == Scenario(WithColleague(Empty, "Staff"),
    Lasting(Together({"auth.login", "auth.logout", "auth.revoke", "auth.logoutAll", "auth.cleanup"},
                     3), 1))
Resetting == Scenario(Empty,
    Lasting(Together({"auth.login", "auth.forgot", "auth.reset", "auth.cleanup"}, 4), 1))
Suspending == Scenario(BothSignedIn("Admin"),
    Failing(Together({"auth.login", "user.update", "auth.logoutAll"}, 3), 1))
Inviting == Scenario(Empty,
    Lasting(Together({"user.invite", "user.resend", "user.cancel", "user.validate", "user.accept"},
                     4), 1))
Joining == Scenario(WithColleague(Empty, "Staff"),
    Together({"user.invite", "user.accept", "user.cancel", "user.update", "auth.cleanup"}, 4))
Granting == Scenario(WithColleague(Empty, "Manager"),
    Together({"role.create", "role.update", "user.update"}, 3))

(* Files *)

WithParents ==
    [Empty EXCEPT !.entities = x1 :> Entity("project", None, None) @@ x2 :> Entity("task", x1, None)
                               @@ x3 :> Entity("case", None, None)]
Filing == Scenario(WithParents, Failing(Together({"file.upload", "file.delete"}, 3), 2))

(* The demo *)

InDemo(tables) == [tables EXCEPT !.runtime = "demo", !.orgs[o1] = [@ EXCEPT !.demo = TRUE,
                                                                            !.expires = 1],
                                 !.records = [k \in {o1} \X Resources |->
                                                 [created |-> 0, derived |-> 0]]]
NoDemo == [Empty EXCEPT !.runtime = "demo", !.orgs = NoRows, !.accounts = NoRows,
                        !.roles = NoRows, !.sessions = NoRows]
Visiting == Scenario(NoDemo, Failing(Together({"demo.start"}, 2), 1))
Returning == Scenario(InDemo(Empty),
    Failing(Lasting(Together({"demo.start", "demo.restart", "demo.cleanup"}, 2), 1), 1))
Filling == Scenario(InDemo(Empty),
    Failing(Together({"demo.create", "demo.derive", "demo.query"}, 3), 1))
Leaving == Scenario(InDemo(WithParents),
    Failing(Lasting(Together({"file.upload", "demo.restart", "demo.cleanup"}, 2), 1), 1))

(* Mail *)

Templating == Scenario([Empty EXCEPT !.orgs[o1].sender = FALSE,
                                     !.templates = t1 :> [org |-> o1, name |-> "A", active |-> TRUE]],
    Together({"template.create", "template.update", "template.duplicate", "template.test",
              "email.settings"}, 2))

InboxOf(mail) == [validity |-> 1, next |-> Cardinality(DOMAIN mail) + 1, mail |-> mail]
MailOf(id, refs, from, file) ==
    [id |-> id, refs |-> refs, from |-> from, fit |-> TRUE, file |-> file]
Connected(tables, mail) ==
    [tables EXCEPT
       !.mailboxes = m1 :> [org |-> o1, address |-> e3, status |-> "CONNECTED",
                            cursor |-> NoCursor],
       !.server = <<m1, "INBOX">> :> InboxOf(mail) @@ <<m1, "SENT">> :> InboxOf(NoRows)]
WithContact(tables) == [tables EXCEPT !.entities = x1 :> Entity("contact", None, e2)]

Sending == Scenario(Connected(WithContact(Empty), NoRows),
    Failing(Together({"email.send", "mail.deliver", "mail.recover"}, 3), 2))
Automating == Scenario(
    [WithContact(Empty) EXCEPT !.templates = t1 :> [org |-> o1, name |-> "A", active |-> TRUE]],
    Failing(Together({"email.automation", "mail.deliver", "mail.recover"}, 4), 1))
Imitating == Scenario(InDemo(WithContact(Empty)),
    Calling({"email.send", "mail.deliver"}, 2))
Connecting == Scenario(Connected(Empty, NoRows),
    Failing(Together({"mailbox.create", "mailbox.update", "mailbox.test", "mailbox.sync",
                      "mailbox.run"}, 3), 1))

TwoMails == 1 :> MailOf(id1, {}, e2, FALSE) @@ 2 :> MailOf(None, {}, e1, TRUE)
Syncing == Scenario([Connected(WithContact(Empty), TwoMails) EXCEPT !.syncs = <<m1, 0>> :> 2],
    Failing(Together({"mailbox.run", "mailbox.recover", "server.arrive", "server.delete",
                      "server.renumber"}, 3), 1))
\* The import of yesterday is slow, and the one of today begins.
Overtaking == Scenario(
    [Connected(WithContact(Empty), TwoMails) EXCEPT !.syncs = <<m1, 0>> :> 2 @@ <<m1, 1>> :> 2],
    Failing(Together({"mailbox.run"}, 2), 2))

Conversing(tables) ==
    [tables EXCEPT
       !.threads = th1 :> ([org |-> o1, mailbox |-> m1, related |-> None, unread |-> TRUE]
                           @@ NewThread),
       !.messages = g1 :> [org |-> o1, mailbox |-> m1, thread |-> th1, direction |-> "INBOUND",
                           status |-> "SENT", related |-> None, key |-> None, id |-> id1,
                           folder |-> "INBOX", uid |-> 1, accepted |-> 0, simulated |-> FALSE]]
Answering == Scenario(Conversing(Connected(WithContact(Empty), 1 :> MailOf(id1, {}, e2, FALSE))),
    Together({"mail.reply", "mail.link", "inbox.lead", "server.arrive", "mailbox.recover",
              "mailbox.run"}, 3))
Handling == Scenario(Conversing(Connected(BothSignedIn("Manager"), NoRows)),
    Together({"inbox.assign", "inbox.status", "inbox.priority", "inbox.read", "inbox.note",
              "inbox.work"}, 2))

-----------------------------------------------------------------------------

AllScenarios ==
    {SigningIn, Resetting, Suspending, Inviting, Joining, Granting, Filing, Visiting, Returning,
     Filling, Leaving, Templating, Sending, Automating, Imitating, Connecting, Syncing, Overtaking,
     Answering, Handling}
=============================================================================
