--------------------------- MODULE Notifications ---------------------------
(***************************************************************************)
(* The mails of one organization: invoice mails, soft-limit warnings and   *)
(* mails to a given address (invitations, reset links).  A worker composes *)
(* a mail after its event was published, statement by statement, while     *)
(* the invoice is paid, the billing customer is created and the settings   *)
(* are patched; whatever goes wrong is logged and the mail is not retried. *)
(***************************************************************************)
EXTENDS Naturals, Sequences, FiniteSets

CONSTANTS Mailers,               \* workers that dispatch events
          Editors,               \* overlapping PATCH /orgs/current requests
          MaxMails, MaxPatches   \* bounds: events, and patches of the settings

ASSUME MailAssumption == IsFiniteSet(Mailers)

VARIABLES
    transport,    \* get_notifier: "smtp", or "noop" when no host is set
    invoice,      \* the invoice's status
    hosted,       \* ... and whether it names a billing customer (billing_customer_id)
    known,        \* the organization's billing customer exists
    settings,     \* organizations.settings, of which mails use billing_email
    patch,        \* what each PATCH request loaded and is about to write
    queued,       \* kinds of the events that are published and not yet handled
    desk,         \* worker -> the mail it composes
    posted,       \* mails handed to SMTP, in order
    \* history
    events, patches,
    excused,      \* mails lost to the transport, an SMTP error or a crash
    last,         \* the last committed value of each setting
    overwritten   \* a patch was written over one it had not seen

mailVars == <<transport, invoice, hosted, known, settings, patch, queued, desk, posted,
              events, patches, excused, last, overwritten>>

SettingKeys == {"billing_email", "locale"}
Unpatched == [k \in SettingKeys |-> "none"]
NoPatch == [at |-> "idle"]
Free == [at |-> "free"]

MailInit ==
    /\ transport \in {"noop", "smtp"}
    /\ invoice = "open" /\ hosted \in BOOLEAN /\ known = hosted
    /\ settings = Unpatched /\ last = Unpatched
    /\ patch = [x \in Editors |-> NoPatch]
    /\ queued = <<"invoice">> /\ events = 1
    /\ desk = [w \in Mailers |-> Free]
    /\ posted = <<>> /\ patches = 0 /\ excused = 0 /\ overwritten = FALSE

----------------------------------------------------------------------------
\* The rest of the chain: settings.billing_email, else the owner (who exists).
AfterCustomer(s) == IF s["billing_email"] # "none" THEN s["billing_email"] ELSE "owner"

\* Whose turn it is at this moment: billing customer, settings, owner.
Precedence == IF known THEN "customer" ELSE AfterCustomer(settings)

\* The history of a mail: who was in turn while it was composed.
Witnessed == desk' = [w \in Mailers |-> IF desk[w] = Free THEN Free
                      ELSE [desk[w] EXCEPT !.eligible = @ \cup {Precedence'}]]

\* handle_event.  An invoice mail reads the invoice, then the organization, then
\* (if the invoice names no customer) the organization's customer; a warning reads
\* the customer first; the others carry their address.
Take(w) ==
    LET kind == Head(queued) IN
    /\ desk[w] = Free /\ queued # <<>>
    /\ queued' = Tail(queued)
    /\ desk' = [desk EXCEPT ![w] =
         [at |-> CASE kind = "invoice" -> "org" [] kind = "warning" -> "customer" [] OTHER -> "send",
          kind |-> kind, status |-> IF kind = "invoice" THEN invoice ELSE "none",
          org |-> Unpatched, absent |-> FALSE,
          to |-> IF kind = "direct" THEN "address" ELSE "none", eligible |-> {Precedence}]]
    /\ UNCHANGED <<transport, invoice, hosted, known, settings, patch, posted, events, patches,
                   excused, last, overwritten>>

Addressed(d, to) == [d EXCEPT !.at = "send", !.to = to]

\* The organization; an invoice mail keeps the row for the rest of the chain.
ReadOrg(w) ==
    LET d == desk[w] IN
    /\ d.at = "org"
    /\ desk' = [desk EXCEPT ![w] =
         IF d.kind = "warning" THEN Addressed(d, AfterCustomer(settings))
         ELSE IF hosted THEN Addressed(d, "customer")
         ELSE [d EXCEPT !.at = "customer", !.org = settings]]
    /\ UNCHANGED <<transport, invoice, hosted, known, settings, patch, queued, posted, events,
                   patches, excused, last, overwritten>>

\* Mutant: an address in the settings goes before the customer's.
CustomerFoundUnlessSet(d) == known /\ d.org["billing_email"] = "none"
CustomerFound(d) == known

ReadCustomer(w) ==
    LET d == desk[w] IN
    /\ d.at = "customer"
    /\ desk' = [desk EXCEPT ![w] =
         IF CustomerFound(d) THEN Addressed(d, "customer")
         ELSE IF d.kind = "warning" THEN [d EXCEPT !.at = "org", !.absent = TRUE]
         ELSE Addressed(d, AfterCustomer(d.org))]
    /\ UNCHANGED <<transport, invoice, hosted, known, settings, patch, queued, posted, events,
                   patches, excused, last, overwritten>>

\* SmtpNotifier.send swallows every error (works = FALSE), the refusal of AUTH
\* without TLS included.
Transmits == transport = "smtp"

SendMail(w, works) ==
    LET d == desk[w] IN
    /\ d.at = "send"
    /\ desk' = [desk EXCEPT ![w] = Free]
    /\ posted' = IF works /\ Transmits /\ d.to # "none" THEN Append(posted, d) ELSE posted
    /\ excused' = IF works /\ Transmits THEN excused ELSE excused + 1
    /\ UNCHANGED <<transport, invoice, hosted, known, settings, patch, queued, events, patches, last, overwritten>>

\* The worker dies with this mail and the next n of its batch: their events are
\* published, and nobody sends them.
MailerDies(w, n) ==
    /\ desk[w] # Free
    /\ desk' = [desk EXCEPT ![w] = Free]
    /\ queued' = SubSeq(queued, n + 1, Len(queued))
    /\ excused' = excused + 1 + n
    /\ UNCHANGED <<transport, invoice, hosted, known, settings, patch, posted, events, patches, last, overwritten>>

----------------------------------------------------------------------------
Publish(kind) ==
    /\ events < MaxMails /\ events' = events + 1
    /\ queued' = Append(queued, kind)

\* A warning or a mail to an address is due.
Announce(kind) ==
    /\ kind \in {"warning", "direct"} /\ Publish(kind)
    /\ UNCHANGED <<transport, invoice, hosted, known, settings, patch, desk, posted, patches,
                   excused, last, overwritten>>

\* record_payment queues a second mail; void queues none.
Paid ==
    /\ invoice = "open" /\ invoice' = "paid" /\ Publish("invoice")
    /\ UNCHANGED <<transport, hosted, known, settings, patch, desk, posted, patches, excused, last, overwritten>>
Voided ==
    /\ invoice = "open" /\ invoice' = "void"
    /\ UNCHANGED <<transport, hosted, known, settings, patch, queued, desk, posted, events,
                   patches, excused, last, overwritten>>

\* A first checkout creates the billing customer.
CustomerAppears ==
    /\ ~known /\ known' = TRUE
    /\ UNCHANGED <<transport, invoice, hosted, settings, patch, queued, posted, events, patches,
                   excused, last, overwritten>>
    /\ Witnessed

\* {**org.settings, **settings}
Merged(old, new) == [k \in SettingKeys |-> IF k \in DOMAIN new THEN new[k] ELSE old[k]]

\* update_organization loads the row without a lock and merges...
PatchSettings(x, new) ==
    /\ patch[x] = NoPatch /\ patches < MaxPatches /\ patches' = patches + 1
    /\ patch' = [patch EXCEPT ![x] = [at |-> "write", new |-> new, seen |-> settings,
                                      whole |-> Merged(settings, new)]]
    /\ UNCHANGED <<transport, invoice, hosted, known, settings, queued, desk, posted, events,
                   excused, last, overwritten>>
\* ... and the commit writes the whole column.
CommitSettings(x) ==
    /\ patch[x] # NoPatch
    /\ settings' = patch[x].whole
    /\ last' = [k \in SettingKeys |-> IF k \in DOMAIN patch[x].new THEN patch[x].new[k] ELSE last[k]]
    /\ overwritten' = (overwritten \/ patch[x].seen # settings)
    /\ patch' = [patch EXCEPT ![x] = NoPatch]
    /\ UNCHANGED <<transport, invoice, hosted, known, queued, posted, events, patches, excused>>
    /\ Witnessed

Patches == {[k \in {"billing_email"} |-> "billing"], [k \in {"locale"} |-> "en"]}

MailNext ==
    \/ \E w \in Mailers : \/ Take(w) \/ ReadOrg(w) \/ ReadCustomer(w)
                          \/ \E n \in 0..Len(queued) : MailerDies(w, n)
                          \/ \E works \in BOOLEAN : SendMail(w, works)
    \/ \E kind \in {"warning", "direct"} : Announce(kind)
    \/ Paid \/ Voided \/ CustomerAppears
    \/ \E x \in Editors : CommitSettings(x) \/ \E new \in Patches : PatchSettings(x, new)

----------------------------------------------------------------------------
InvoiceMails(paid) == {i \in DOMAIN posted : posted[i].kind = "invoice" /\ (posted[i].status = "paid") = paid}
Composing == {w \in Mailers : desk[w] # Free}

\* "instead of dropping the mail on the floor": every event that was handled led to
\* a mail, except for the transport, SMTP errors and crashes, which nothing repeats.
NoMailDropped == events - Len(queued) = Len(posted) + excused + Cardinality(Composing)

\* A mail about money goes to the address whose turn it was at some moment while it
\* was composed, although the chain is read in several statements.  A warning reads
\* the customer first: one that appears meanwhile is the exception.
RightRecipient ==
    \A i \in DOMAIN posted : LET p == posted[i] IN
        p.kind # "direct" =>
            p.to \in p.eligible \/ (p.kind = "warning" /\ p.absent /\ "customer" \in p.eligible)

\* An invoice is dunned once and its payment is confirmed: a mail whose event came
\* with the payment never says due, and in the end one mail says paid.
PaymentConfirmed ==
    /\ Cardinality(InvoiceMails(FALSE)) <= 1
    /\ (queued = <<>> /\ Composing = {} /\ excused = 0 /\ invoice = "paid") => InvoiceMails(TRUE) # {}

\* PATCH merges: a setting keeps the last value that was committed for it, unless
\* one patch was written over another that it had not seen.
SettingsMerge == ~overwritten => settings = last
====
