----------------------------- MODULE ZoneEditing -----------------------------
(***************************************************************************)
(* The zone-editing web views of views/fzone.py racing each other and the *)
(* DNS engine's reads of one zone.  Every view is a Django request running *)
(* on its own thread in autocommit mode: each ORM call is its own atomic  *)
(* statement and nothing holds a lock across them.                         *)
(*                                                                         *)
(* Store: the zone row (exists, last_modified = the SOA serial, active)   *)
(* and its record rows, ids never reused (UUID keys).  Model.save() on a  *)
(* loaded object writes every field of the object as loaded, by UPDATE,  *)
(* and INSERTs the row when the UPDATE matched none.  Record rows hold a  *)
(* foreign key to the zone (CASCADE), checked on INSERT.                   *)
(*                                                                         *)
(* Record values are abstract: "mx" stands for the MX records at @ that   *)
(* setup_gsuite replaces, "gh" for the A records setup_github_pages       *)
(* replaces, "txt" for the DMARC record, "a" for anything else.           *)
(***************************************************************************)
EXTENDS Integers, Sequences, FiniteSets

CONSTANTS
    Editors,       \* concurrent web requests
    Views,         \* the views editors may run
    Vals,          \* record values a form or a zone file may carry
    MaxTime,       \* the clock's last second
    MaxIds,        \* record ids available to inserts
    InitRecs,      \* records the zone holds at the start
    WizardRecords, \* records a setup wizard inserts (5 MX, 4 A in the code)
    MaxImport,     \* records a zone file may hold
    Readers,       \* concurrent DNS requests reading the zone
    MaxSecrets     \* update-secret ids available to inserts

VARIABLES
    zoneExists, lastMod, active,  \* the zone row
    recs,                         \* record id -> value, or Absent
    nextId,                       \* the next fresh record id
    now,                          \* timezone.now(), in whole seconds
    ed,                           \* per-editor request state
    q,                            \* per reader, its read of the zone: [pc, serial]
    obs,                          \* per reader, the last reply it built: [serial, data]
    deleted,                      \* record ids a delete view or cascade removed
    secrets,                      \* update-secret id -> Present or Absent
    nextSecret,                   \* the next fresh update-secret id
    revoked                       \* secret ids a delete view or cascade removed

secretVars == <<secrets, nextSecret, revoked>>
vars == <<zoneExists, lastMod, active, recs, nextId, now, ed, q, obs, deleted,
          secrets, nextSecret, revoked>>

Ids == 1..MaxIds
Absent == "absent"
NoObj == [lastMod |-> 0, active |-> FALSE]
Idle == [pc |-> "idle", view |-> "none", rec |-> 0, val |-> Absent, ts |-> 0,
         zobj |-> NoObj, todo |-> <<>>]

NoObs == [serial |-> -1, data |-> <<>>]
Live == {r \in Ids : recs[r] # Absent}
SecretIds == 1..MaxSecrets
Present == "present"
LiveSecrets == {s \in SecretIds : secrets[s] = Present}
ZoneObj == [lastMod |-> lastMod, active |-> active]

\* Each step of editor e: a guard on its pc, the statement, the next pc.
At(e, p) == ed[e].pc = p
Go(e, f) == ed' = [ed EXCEPT ![e] = f]
Done(e) == ed' = [ed EXCEPT ![e] = Idle]

-----------------------------------------------------------------------------
(* Views that edit one record: create_*_record, edit_*_record,             *)
(* delete_*_record (the same code for every record type).                  *)

\* create_*_record: get_object_or_404 of the zone, a valid form.
LoadCreateRecord(e) ==
    /\ At(e, "idle") /\ "create" \in Views /\ zoneExists /\ nextId <= MaxIds
    /\ \E v \in Vals : Go(e, [Idle EXCEPT !.pc = "stamp", !.view = "create",
                                         !.val = v, !.zobj.active = active])
    /\ UNCHANGED <<secretVars, zoneExists, lastMod, active, recs, nextId, now, q, obs, deleted>>

\* edit_*_record: get_object_or_404 of the record, then user_record.zone
\* (loaded here by has_scope), a valid form.
LoadEditRecord(e) ==
    /\ At(e, "idle") /\ "edit" \in Views /\ zoneExists
    /\ \E r \in Live, v \in Vals :
          Go(e, [Idle EXCEPT !.pc = "stamp", !.view = "edit", !.rec = r,
                             !.val = v, !.zobj.active = active])
    /\ UNCHANGED <<secretVars, zoneExists, lastMod, active, recs, nextId, now, q, obs, deleted>>

\* delete_*_record: the record and its zone, POST delete=true.
LoadDeleteRecord(e) ==
    /\ At(e, "idle") /\ "delete" \in Views /\ zoneExists
    /\ \E r \in Live :
          Go(e, [Idle EXCEPT !.pc = "stamp", !.view = "delete", !.rec = r,
                             !.zobj.active = active])
    /\ UNCHANGED <<secretVars, zoneExists, lastMod, active, recs, nextId, now, q, obs, deleted>>

\* zone.last_modified = timezone.now()
Stamp(e) ==
    /\ At(e, "stamp")
    /\ Go(e, [ed[e] EXCEPT !.ts = now,
                           !.pc = IF ed[e].view = "create" THEN "insert" ELSE "save_zone"])
    /\ UNCHANGED <<secretVars, zoneExists, lastMod, active, recs, nextId, now, q, obs, deleted>>

\* instance.save() of a new record: INSERT, refused without the zone row.
InsertRecordSameId(e) ==
    /\ At(e, "insert")
    /\ \/ /\ zoneExists /\ nextId <= MaxIds
          /\ recs' = [recs EXCEPT ![nextId] = ed[e].val]
          /\ UNCHANGED nextId
          /\ Go(e, [ed[e] EXCEPT !.pc = "save_zone"])
       \/ /\ ~zoneExists \/ nextId > MaxIds
          /\ Done(e)
          /\ UNCHANGED <<recs, nextId>>
    /\ UNCHANGED <<secretVars, zoneExists, lastMod, active, now, q, obs, deleted>>
InsertRecord(e) ==
    /\ At(e, "insert")
    /\ \/ /\ zoneExists /\ nextId <= MaxIds
          /\ recs' = [recs EXCEPT ![nextId] = ed[e].val]
          /\ nextId' = nextId + 1
          /\ Go(e, [ed[e] EXCEPT !.pc = "save_zone"])
       \* IntegrityError; or the ids of the model are used up
       \/ /\ ~zoneExists \/ nextId > MaxIds
          /\ Done(e)
          /\ UNCHANGED <<recs, nextId>>
    /\ UNCHANGED <<secretVars, zoneExists, lastMod, active, now, q, obs, deleted>>

\* user_zone.save(): every field of the loaded zone object, last_modified
\* replaced; UPDATE, or INSERT when the row is gone.
SaveZone(e) ==
    /\ At(e, "save_zone")
    /\ zoneExists' = TRUE
    /\ lastMod' = ed[e].ts
    /\ active' = ed[e].zobj.active
    /\ IF ed[e].view = "create" THEN Done(e)
       ELSE Go(e, [ed[e] EXCEPT !.pc = IF ed[e].view = "edit" THEN "update" ELSE "delete_rec"])
    /\ UNCHANGED <<secretVars, recs, nextId, now, q, obs, deleted>>

\* record_form.save() of a loaded record: UPDATE, or INSERT of the same id
\* when the row is gone (refused without the zone row).
UpdateRecord(e) ==
    /\ At(e, "update")
    /\ recs' = IF recs[ed[e].rec] # Absent \/ zoneExists
               THEN [recs EXCEPT ![ed[e].rec] = ed[e].val] ELSE recs
    /\ Done(e)
    /\ UNCHANGED <<secretVars, zoneExists, lastMod, active, nextId, now, q, obs, deleted>>

\* user_record.delete()
DeleteRecord(e) ==
    /\ At(e, "delete_rec")
    /\ recs' = [recs EXCEPT ![ed[e].rec] = Absent]
    /\ deleted' = deleted \cup {ed[e].rec}
    /\ Done(e)
    /\ UNCHANGED <<secretVars, zoneExists, lastMod, active, nextId, now, q, obs>>

-----------------------------------------------------------------------------
(* Zone views: create_zone, create_domains_zone, delete_zone.              *)

\* create_zone: valid_zone and log_usage pass, zone_obj.save() inserts the
\* row (active takes the model default, not visible in this repository).
CreateZone(e) ==
    /\ At(e, "idle") /\ "create_zone" \in Views /\ ~zoneExists
    /\ zoneExists' = TRUE
    /\ lastMod' = now
    /\ active' \in BOOLEAN
    /\ UNCHANGED <<secretVars, recs, nextId, now, ed, q, obs, deleted>>

\* create_domains_zone: DNSZone.objects.filter(zone_root=...).first(); the
\* existing row is loaded for activation, or, when there is none, the new
\* row is built after valid_zone and log_usage, which take remote calls.
LoadDomainsZone(e) ==
    /\ At(e, "idle") /\ "domains_zone" \in Views
    /\ IF zoneExists
       THEN Go(e, [Idle EXCEPT !.pc = "activate", !.view = "domains_zone", !.zobj = ZoneObj])
       ELSE Go(e, [Idle EXCEPT !.pc = "insert_zone", !.view = "domains_zone"])
    /\ UNCHANGED <<secretVars, zoneExists, lastMod, active, recs, nextId, now, q, obs, deleted>>

\* DNSZone(..., last_modified=timezone.now(), active=True).save(): an INSERT,
\* refused (IntegrityError) when a request inserted the root since the
\* lookup, the root being unique.
InsertDomainsZone(e) ==
    /\ At(e, "insert_zone")
    /\ IF zoneExists
       THEN UNCHANGED <<zoneExists, lastMod, active>>
       ELSE zoneExists' = TRUE /\ lastMod' = now /\ active' = TRUE
    /\ Done(e)
    /\ UNCHANGED <<secretVars, recs, nextId, now, q, obs, deleted>>

ActivateZone(e) ==
    /\ At(e, "activate")
    /\ zoneExists' = TRUE
    /\ lastMod' = ed[e].zobj.lastMod
    /\ active' = TRUE
    /\ Done(e)
    /\ UNCHANGED <<secretVars, recs, nextId, now, q, obs, deleted>>

LoadDeleteZone(e) ==
    /\ At(e, "idle") /\ "delete_zone" \in Views /\ zoneExists
    /\ Go(e, [Idle EXCEPT !.pc = "delete_zone", !.view = "delete_zone"])
    /\ UNCHANGED <<secretVars, zoneExists, lastMod, active, recs, nextId, now, q, obs, deleted>>

\* The records' zone foreign key, on_delete=CASCADE: they go with the zone.
CascadeDelete == [r \in Ids |-> Absent]
\* DNSZoneUpdateSecrets.zone, taken to cascade like the record tables'.
CascadeDeleteSecrets == [s \in SecretIds |-> Absent]

\* log_usage(extra=-1) either refuses (nothing changes) or user_zone.delete()
\* removes the records (CASCADE) and the row in one transaction.
DeleteZone(e) ==
    /\ At(e, "delete_zone")
    /\ \/ UNCHANGED <<zoneExists, recs, deleted, secrets, revoked>>
       \/ /\ zoneExists' = FALSE
          /\ recs' = CascadeDelete
          /\ deleted' = deleted \cup Live
          /\ secrets' = CascadeDeleteSecrets
          /\ revoked' = revoked \cup LiveSecrets
    /\ Done(e)
    /\ UNCHANGED <<lastMod, active, nextId, nextSecret, now, q, obs>>

-----------------------------------------------------------------------------
(* Bulk views: import_zone_file, generate_dmarc, setup_gsuite,             *)
(* setup_github_pages.  None of them touches last_modified.                *)

Seqs(S, n) == UNION {[1..k -> S] : k \in 1..n}

\* import_zone_file: ZoneParser either rejects the file (nothing is saved)
\* or yields the records to save, in file order.
LoadImport(e) ==
    /\ At(e, "idle") /\ "import" \in Views /\ zoneExists
    /\ \E recsIn \in Seqs(Vals, MaxImport) \cup {<<>>} :
          Go(e, [Idle EXCEPT !.pc = "insert_each", !.view = "import", !.todo = recsIn])
    /\ UNCHANGED <<secretVars, zoneExists, lastMod, active, recs, nextId, now, q, obs, deleted>>

\* generate_dmarc: one TXT record at _dmarc.
LoadDmarc(e) ==
    /\ At(e, "idle") /\ "dmarc" \in Views /\ zoneExists
    /\ Go(e, [Idle EXCEPT !.pc = "insert_each", !.view = "dmarc", !.todo = <<"txt">>])
    /\ UNCHANGED <<secretVars, zoneExists, lastMod, active, recs, nextId, now, q, obs, deleted>>

\* setup_gsuite: POST setup=true; the MX set at @ is to be replaced.
LoadGsuite(e) ==
    /\ At(e, "idle") /\ "gsuite" \in Views /\ zoneExists
    /\ Go(e, [Idle EXCEPT !.pc = "clear", !.view = "gsuite",
                          !.todo = [k \in 1..WizardRecords |-> "mx"]])
    /\ UNCHANGED <<secretVars, zoneExists, lastMod, active, recs, nextId, now, q, obs, deleted>>

\* setup_github_pages: a valid form; the A records at its name are replaced.
LoadGithub(e) ==
    /\ At(e, "idle") /\ "github" \in Views /\ zoneExists
    /\ Go(e, [Idle EXCEPT !.pc = "clear", !.view = "github",
                          !.todo = [k \in 1..WizardRecords |-> "gh"]])
    /\ UNCHANGED <<secretVars, zoneExists, lastMod, active, recs, nextId, now, q, obs, deleted>>

\* zone_obj.mxrecord_set.filter(record_name="@").delete(), or the A records
\* at the chosen name: one DELETE statement.
ClearWizardRecords(e) ==
    /\ At(e, "clear")
    /\ LET gone == {r \in Live : recs[r] = ed[e].todo[1]}
       IN /\ recs' = [r \in Ids |-> IF r \in gone THEN Absent ELSE recs[r]]
          /\ deleted' = deleted \cup gone
    /\ Go(e, [ed[e] EXCEPT !.pc = "insert_each"])
    /\ UNCHANGED <<secretVars, zoneExists, lastMod, active, nextId, now, q, obs>>

\* One r.save() of the loop; an IntegrityError ends the request, leaving the
\* records saved so far.  Ids running out ends the loop (a model bound).
InsertEach(e) ==
    /\ At(e, "insert_each")
    /\ IF ed[e].todo = <<>> \/ nextId > MaxIds
       THEN Done(e) /\ UNCHANGED <<recs, nextId>>
       ELSE IF ~zoneExists
       THEN Done(e) /\ UNCHANGED <<recs, nextId>>
       ELSE /\ recs' = [recs EXCEPT ![nextId] = Head(ed[e].todo)]
            /\ nextId' = nextId + 1
            /\ Go(e, [ed[e] EXCEPT !.todo = Tail(@)])
    /\ UNCHANGED <<secretVars, zoneExists, lastMod, active, now, q, obs, deleted>>

-----------------------------------------------------------------------------
(* Update-secret views: create_zone_secret, edit_zone_secret,              *)
(* delete_zone_secret.  None of them touches the zone row.                 *)

SecretsUnchanged == UNCHANGED <<zoneExists, lastMod, active, recs, nextId, now, q, obs, deleted>>

\* create_zone_secret: get_object_or_404 of the zone, a valid form.
LoadCreateSecret(e) ==
    /\ At(e, "idle") /\ "create_secret" \in Views /\ zoneExists
    /\ Go(e, [Idle EXCEPT !.pc = "insert_secret", !.view = "create_secret"])
    /\ SecretsUnchanged /\ UNCHANGED secretVars

\* record_form.save() of DNSZoneUpdateSecrets(zone=user_zone): an INSERT,
\* refused without the zone row.
InsertSecret(e) ==
    /\ At(e, "insert_secret")
    /\ IF zoneExists /\ nextSecret <= MaxSecrets
       THEN /\ secrets' = [secrets EXCEPT ![nextSecret] = Present]
            /\ nextSecret' = nextSecret + 1
       ELSE UNCHANGED <<secrets, nextSecret>>
    /\ Done(e)
    /\ SecretsUnchanged /\ UNCHANGED revoked

\* edit_zone_secret: get_object_or_404 of the secret (its zone loaded by
\* has_scope), a valid form.
LoadEditSecret(e) ==
    /\ At(e, "idle") /\ "edit_secret" \in Views
    /\ \E s \in LiveSecrets :
          Go(e, [Idle EXCEPT !.pc = "save_secret", !.view = "edit_secret", !.rec = s])
    /\ SecretsUnchanged /\ UNCHANGED secretVars

\* user_record.save() of the loaded secret: UPDATE, or INSERT of the same
\* id when the row is gone (refused without the zone row).
SaveSecret(e) ==
    /\ At(e, "save_secret")
    /\ secrets' = IF secrets[ed[e].rec] = Present \/ zoneExists
                  THEN [secrets EXCEPT ![ed[e].rec] = Present] ELSE secrets
    /\ Done(e)
    /\ SecretsUnchanged /\ UNCHANGED <<nextSecret, revoked>>

\* delete_zone_secret: the secret, then on POST delete=true its delete().
LoadDeleteSecret(e) ==
    /\ At(e, "idle") /\ "delete_secret" \in Views
    /\ \E s \in LiveSecrets :
          Go(e, [Idle EXCEPT !.pc = "delete_secret", !.view = "delete_secret", !.rec = s])
    /\ SecretsUnchanged /\ UNCHANGED secretVars

DeleteSecret(e) ==
    /\ At(e, "delete_secret")
    /\ secrets' = [secrets EXCEPT ![ed[e].rec] = Absent]
    /\ revoked' = revoked \cup {ed[e].rec}
    /\ Done(e)
    /\ SecretsUnchanged /\ UNCHANGED nextSecret

-----------------------------------------------------------------------------
(* The DNS engine: find_zone reads the zone row (the SOA serial), then the *)
(* handlers read the records, in separate queries.                          *)

QueryZone(rd) ==
    /\ q[rd].pc = "idle" /\ zoneExists
    /\ q' = [q EXCEPT ![rd] = [pc |-> "records", serial |-> lastMod]]
    /\ UNCHANGED <<secretVars, zoneExists, lastMod, active, recs, nextId, now, ed, obs, deleted>>

QueryRecords(rd) ==
    /\ q[rd].pc = "records"
    /\ obs' = [obs EXCEPT ![rd] = [serial |-> q[rd].serial, data |-> recs]]
    /\ q' = [q EXCEPT ![rd] = [pc |-> "idle", serial |-> 0]]
    /\ UNCHANGED <<secretVars, zoneExists, lastMod, active, recs, nextId, now, ed, deleted>>

Tick ==
    /\ now < MaxTime
    /\ now' = now + 1
    /\ UNCHANGED <<secretVars, zoneExists, lastMod, active, recs, nextId, ed, q, obs, deleted>>

-----------------------------------------------------------------------------
Init ==
    /\ zoneExists = TRUE
    /\ lastMod = 0
    /\ active \in BOOLEAN
    /\ recs = [r \in Ids |-> IF r <= InitRecs THEN "a" ELSE Absent]
    /\ nextId = InitRecs + 1
    /\ now = 0
    /\ ed = [e \in Editors |-> Idle]
    /\ q = [rd \in Readers |-> [pc |-> "idle", serial |-> 0]]
    /\ obs = [rd \in Readers |-> NoObs]
    /\ deleted = {}
    /\ secrets = [s \in SecretIds |-> Absent]
    /\ nextSecret = 1
    /\ revoked = {}

Step(e) ==
    \/ LoadCreateRecord(e) \/ LoadEditRecord(e) \/ LoadDeleteRecord(e) \/ Stamp(e) \/ InsertRecord(e) \/ SaveZone(e)
    \/ UpdateRecord(e) \/ DeleteRecord(e)
    \/ CreateZone(e) \/ LoadDomainsZone(e) \/ InsertDomainsZone(e) \/ ActivateZone(e)
    \/ LoadDeleteZone(e) \/ DeleteZone(e)
    \/ LoadImport(e) \/ LoadDmarc(e) \/ LoadGsuite(e) \/ LoadGithub(e)
    \/ ClearWizardRecords(e) \/ InsertEach(e)
    \/ LoadCreateSecret(e) \/ InsertSecret(e) \/ LoadEditSecret(e) \/ SaveSecret(e)
    \/ LoadDeleteSecret(e) \/ DeleteSecret(e)

Next ==
    \/ \E e \in Editors : Step(e)
    \/ \E rd \in Readers : QueryZone(rd) \/ QueryRecords(rd)
    \/ Tick

Spec == Init /\ [][Next]_vars

-----------------------------------------------------------------------------
(* Properties *)

Pcs == {"idle", "stamp", "insert", "save_zone", "update", "delete_rec", "activate",
        "delete_zone", "clear", "insert_each", "insert_zone", "insert_secret", "save_secret",
        "delete_secret"}

TypeOK ==
    /\ zoneExists \in BOOLEAN /\ lastMod \in 0..MaxTime /\ active \in BOOLEAN
    /\ recs \in [Ids -> Vals \cup {"txt", "mx", "gh", Absent}]
    /\ nextId \in 1..(MaxIds + 1)
    /\ \A r \in Ids : r >= nextId => recs[r] = Absent
    /\ now \in 0..MaxTime
    /\ \A e \in Editors : ed[e].pc \in Pcs /\ ed[e].ts <= now
    /\ \A rd \in Readers : q[rd].pc \in {"idle", "records"}
    /\ deleted \subseteq Ids
    /\ secrets \in [SecretIds -> {Present, Absent}]
    /\ nextSecret \in 1..(MaxSecrets + 1)
    /\ revoked \subseteq SecretIds

\* RFC 1035 3.3.13 / spec 3: the SOA serial is the zone's version, so two
\* replies with the same serial carry the same records.  The views change
\* records and last_modified in separate statements, the bulk views never
\* touch last_modified, and last_modified has whole-second resolution.
\* Checked on consecutive replies of the engine.
SerialIdentifiesContent ==
    [][\A rd \in Readers :
          (obs[rd] # NoObs /\ obs'[rd].serial = obs[rd].serial) => obs'[rd].data = obs[rd].data]_vars

WizardReplacesRecords ==
    \A v \in {"mx", "gh"} : Cardinality({r \in Live : recs[r] = v}) <= WizardRecords

=============================================================================
