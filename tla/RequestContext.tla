--------------------------- MODULE RequestContext ---------------------------
(***************************************************************************)
(* What follows a request through the process by way of context variables: *)
(* the tenant of src/tenant.py and the forensic context of                 *)
(* src/runtime_settings.py.  Middleware and async dependencies set them in *)
(* the request's own task of the event loop; the handler runs in a thread  *)
(* of the pool, in a copy of them.  Two handlers read them: that of a read *)
(* of one row through CachedTranscriptRepository, whose cache the tenants  *)
(* share, and that of an update of a setting, which writes an audit row.   *)
(***************************************************************************)
EXTENDS Naturals, FiniteSets

CONSTANTS
    Tenant,       \* hashes of the API keys
    NoTenant,     \* of a request without a key, and of a row of import_from_local()
    Address,      \* of clients
    Task,         \* requests under way at once
    Thread,       \* the thread pool
    MaxPuts       \* bound on the times the row is written again

ASSUME ContextAssumption ==
    NoTenant \notin Tenant /\ Task # {} /\ Address # {} /\ MaxPuts \in Nat

Anyone == Tenant \cup {NoTenant}
Absent == "absent"  \* no row; as an entry, "" of the negative cache
Unset == "unset"

VARIABLES
    row,       \* tenant_id of the row, or Absent
    puts,      \* times the row was written again
    entries,   \* entries[t]: the values cached under t's key, none or one
    incoming,  \* incoming[q]: the headers and the peer of q, see Exchange
    context,   \* context[q]: the context variables of q's task
    thread,    \* thread[w]: the handler in w, see Handler
    deletion   \* where delete() is

contextVars == <<row, puts, entries, incoming, context, thread, deletion>>

Exchange ==
    [stage : {"none", "scoped", "captured", "handled"},
     tenant : Anyone, address : Address]
Context == [tenant : Anyone, address : Address \cup {Unset}]

\* What the handler has found is a tenant's row, Absent, or not there yet.
Handler ==
    [at : {"idle", "running", "missed", "read", "answered", "audited"},
     of : Task, context : Context, found : Anyone \cup {Absent, Unset}]

Fresh == [tenant |-> NoTenant, address |-> Unset]
NoRequest == [stage |-> "none", tenant |-> NoTenant,
              address |-> CHOOSE a \in Address : TRUE]
NoHandler == [at |-> "idle", of |-> CHOOSE q \in Task : TRUE,
              context |-> Fresh, found |-> Unset]

ContextInit ==
    /\ row \in Anyone
    /\ puts = 0
    /\ entries = [t \in Anyone |-> {}]
    /\ incoming = [q \in Task |-> NoRequest]
    /\ context = [q \in Task |-> Fresh]
    /\ thread = [w \in Thread |-> NoHandler]
    /\ deletion = "none"

taskVars == <<incoming, context, thread>>
-----------------------------------------------------------------------------
(* The task of a request, in the event loop.                               *)

\* A request arrives in a task with a context of its own, and passes
\* _TenantContextMiddleware: the tenant is that of its key, or none.  What its
\* headers and its peer are is left open until the code looks at them.
SetTenant(q) ==
    /\ incoming[q].stage = "none"
    /\ \E t \in Anyone :
          /\ context' = [context EXCEPT ![q] = [Fresh EXCEPT !.tenant = t]]
          /\ incoming' = [incoming EXCEPT ![q].stage = "scoped", ![q].tenant = t]
    /\ UNCHANGED <<row, puts, entries, thread, deletion>>

\* _capture_audit_context() of the admin routes, in the task as it is async.
CaptureAudit(q) ==
    /\ incoming[q].stage = "scoped"
    /\ \E a \in Address :
          /\ context' = [context EXCEPT ![q].address = a]
          /\ incoming' = [incoming EXCEPT ![q].stage = "captured", ![q].address = a]
    /\ UNCHANGED <<row, puts, entries, thread, deletion>>

\* A thread takes up the handler, with a copy of the context of the task.
Dispatch(q, w) ==
    /\ incoming[q].stage \in {"scoped", "captured"}
    /\ thread[w].at = "idle"
    /\ thread' = [thread EXCEPT ![w] =
          [at |-> "running", of |-> q, context |-> context[q], found |-> Unset]]
    /\ incoming' = [incoming EXCEPT ![q].stage = "handled"]
    /\ UNCHANGED <<row, puts, entries, context, deletion>>
-----------------------------------------------------------------------------
(* The handlers.                                                           *)

\* Only a request to the admin routes has an address in its context.
IsAdmin(w) == thread[w].context.address # Unset

Goes(w, stage, value) ==
    thread' = [thread EXCEPT ![w].at = stage, ![w].found = value]

\* Mutant: the key is the id of the meeting.
KeyOfMeeting(w) == NoTenant
\* The key is scoped by current_tenant().
CacheKey(w) == thread[w].context.tenant

LookupEntry(w) ==
    /\ thread[w].at = "running" /\ ~ IsAdmin(w)
    /\ \/ \E value \in entries[CacheKey(w)] : Goes(w, "answered", value)
       \/ entries[CacheKey(w)] = {} /\ Goes(w, "missed", Unset)
    /\ UNCHANGED <<row, puts, entries, incoming, context, deletion>>

\* DatabaseRepository.get(): a tenant finds its own rows, no tenant finds all.
Found(w) ==
    IF thread[w].context.tenant \in {NoTenant, row} THEN row ELSE Absent

ReadRow(w) ==
    /\ thread[w].at = "missed"
    /\ Goes(w, "read", Found(w))
    /\ UNCHANGED <<row, puts, entries, incoming, context, deletion>>

\* cache_set() of the meeting, or of "" for 30 s.
Fill(w) ==
    /\ thread[w].at = "read"
    /\ entries' = [entries EXCEPT ![CacheKey(w)] = {thread[w].found}]
    /\ Goes(w, "answered", thread[w].found)
    /\ UNCHANGED <<row, puts, incoming, context, deletion>>

\* RuntimeSettings.set() adds an AuditLog with _audit_ip_ua().
WriteAudit(w) ==
    /\ thread[w].at = "running" /\ IsAdmin(w)
    /\ Goes(w, "audited", Unset)
    /\ UNCHANGED <<row, puts, entries, incoming, context, deletion>>

\* The response is sent, and the thread is free.
Leave(w) ==
    /\ thread[w].at \in {"answered", "audited"}
    /\ incoming' = [incoming EXCEPT ![thread[w].of] = NoRequest]
    /\ context' = [context EXCEPT ![thread[w].of] = Fresh]
    /\ thread' = [thread EXCEPT ![w] = NoHandler]
    /\ UNCHANGED <<row, puts, entries, deletion>>
-----------------------------------------------------------------------------
(* The row and its entries.                                                *)

\* The data platform writes the row again, for whichever tenant.
PutRow ==
    /\ row = Absent /\ puts < MaxPuts
    /\ row' \in Anyone
    /\ puts' = puts + 1
    /\ UNCHANGED <<entries, taskVars, deletion>>

\* CachedTranscriptRepository.delete(): the row, of whichever tenant.
DeleteRowOf ==
    /\ deletion = "none"
    /\ row' = Absent
    /\ deletion' = "removed"
    /\ UNCHANGED <<puts, entries, taskVars>>

\* invalidate(): the key without a tenant.
DropEntry ==
    /\ deletion = "removed"
    /\ entries' = [entries EXCEPT ![NoTenant] = {}]
    /\ deletion' = "none"
    /\ UNCHANGED <<row, puts, taskVars>>

EntryExpires(t) ==
    /\ entries[t] # {}
    /\ entries' = [entries EXCEPT ![t] = {}]
    /\ UNCHANGED <<row, puts, taskVars, deletion>>

ContextNext ==
    \/ \E q \in Task : \/ SetTenant(q) \/ CaptureAudit(q)
                       \/ \E w \in Thread : Dispatch(q, w)
    \/ \E w \in Thread : \/ LookupEntry(w) \/ ReadRow(w) \/ Fill(w)
                         \/ WriteAudit(w) \/ Leave(w)
    \/ PutRow \/ DeleteRowOf \/ DropEntry
    \/ \E t \in Anyone : EntryExpires(t)

ContextSpec == ContextInit /\ [][ContextNext]_contextVars
-----------------------------------------------------------------------------
ContextTypeOK ==
    /\ row \in Anyone \cup {Absent}
    /\ puts \in 0..MaxPuts
    /\ \A t \in Anyone :
          entries[t] \subseteq Anyone \cup {Absent} /\ Cardinality(entries[t]) <= 1
    /\ incoming \in [Task -> Exchange]
    /\ context \in [Task -> Context]
    /\ thread \in [Thread -> Handler]
    /\ deletion \in {"none", "removed"}

\* "Two tenants asking for the same meeting_id never share a cached entry"
\* (repository.py:323-326) and "every audit row carries the caller's IP"
\* (admin_app.py:130-132): whichever threads run the handlers of the requests
\* under way, whatever they find in the cache they share, and whoever owns the
\* row by then, what is answered to a tenant is its own, and what is written
\* to the audit log names the client of that very request.
ContextIsOwn ==
    \A w \in Thread :
        LET mine == incoming[thread[w].of] IN
        /\ thread[w].at = "answered" /\ mine.tenant # NoTenant =>
              thread[w].found \in {mine.tenant, Absent}
        /\ thread[w].at = "audited" =>
              thread[w].context.address = mine.address
=============================================================================
