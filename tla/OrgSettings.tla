----------------------------- MODULE OrgSettings -----------------------------
(***************************************************************************)
(* The organization's part of the settings page                            *)
(* (app/(app)/settings/page.tsx): the profile, single sign-on and the      *)
(* control that switches organizations (OrganizationProvider.tsx), for an  *)
(* administrator of several organizations.                                 *)
(*                                                                         *)
(* The page's queries are cached under keys that name the organization,    *)
(* while the request that answers one names the organization that          *)
(* localStorage holds when it is made. SSO stands for the queries of this  *)
(* form: members, invites and copilot limits are cached the same way. A    *)
(* value is told by the organization it belongs to, or was typed for.      *)
(***************************************************************************)
EXTENDS Naturals

CONSTANTS
    Orgs,
    NoOrg,
    OtherTabs,     \* whether the user works in other tabs, too
    MaxActs        \* bound: switches, edits, saves and faults

SettingsAssumption ==
    NoOrg \notin Orgs /\ OtherTabs \in BOOLEAN /\ MaxActs \in Nat

Homes == Orgs \cup {NoOrg}          \* NoOrg: nothing is set
Configs == [idp : Homes, cert : Homes, on : BOOLEAN]
NoData == [from |-> NoOrg, idp |-> NoOrg, on |-> FALSE]

VARIABLES
    active,       \* activeOrganizationId
    key,          \* localStorage trustfabric_organization_id, the header of requests
    config,       \* the server: SSO by organization
    name,         \* the server: the profile by organization
    cached,       \* the query cache: org-sso by organization
    flight,       \* requests in flight by cache key: the organization in their header
    form,         \* the fields of both forms
    saving,       \* an SSO configuration being saved
    savingOrg,    \* a profile being saved
    asking,       \* refresh of the provider is in flight
    acts,         \* counts what MaxActs bounds
    astray        \* history: since the page's last switch another tab has switched, or the query
                  \* of the active organization failed, or was answered for another one because
                  \* such a request was still in flight when the page came to it

queries == <<cached, flight>>
vars == <<active, key, config, name, queries, form, saving, savingOrg, asking, acts, astray>>

Idle == [to |-> NoOrg]
Saves == [to : Orgs, new : Configs]
OrgSaves == [to : Orgs, new : Orgs]

TypeOK ==
    /\ active \in Orgs /\ key \in Orgs
    /\ config \in [Orgs -> Configs] /\ name \in [Orgs -> Orgs]
    /\ cached \in [Orgs -> [from : Homes, idp : Homes, on : BOOLEAN]]
    /\ flight \in [Orgs -> Homes]
    /\ form \in [idp : Homes, cert : Homes, on : BOOLEAN, name : Orgs]
    /\ saving = Idle \/ saving \in Saves
    /\ savingOrg = Idle \/ savingOrg \in OrgSaves
    /\ asking \in BOOLEAN /\ acts \in 0..MaxActs /\ astray \in BOOLEAN

Init ==
    /\ active \in Orgs /\ key = active
    /\ config = [o \in Orgs |-> [idp |-> o, cert |-> o, on |-> TRUE]]
    /\ name = [o \in Orgs |-> o]
    /\ cached = [o \in Orgs |-> NoData]
    /\ flight = [o \in Orgs |-> IF o = active THEN key ELSE NoOrg]
    /\ form = [idp |-> NoOrg, cert |-> NoOrg, on |-> FALSE, name |-> active]
    /\ saving = Idle /\ savingOrg = Idle /\ asking = FALSE
    /\ acts = 0 /\ astray = FALSE

Act == acts < MaxActs /\ acts' = acts + 1

-----------------------------------------------------------------------------
(* Queries.                                                                *)

\* A query that has never been answered is not asked again while a request is in flight.
Refetch(f, k, header) ==
    [f EXCEPT ![k] = IF cached[k] = NoData /\ f[k] # NoOrg THEN @ ELSE header]
\* An observer that comes to a key asks if nobody is asking.
Observe(f, k, header) == [f EXCEPT ![k] = IF @ # NoOrg THEN @ ELSE header]

\* The effect on ssoConfig; the certificate is never sent to the page and stays as typed.
Filled(data) == IF data = NoData THEN form ELSE [form EXCEPT !.idp = data.idp, !.on = data.on]

Answered(k) ==
    /\ flight[k] # NoOrg
    /\ flight' = [flight EXCEPT ![k] = NoOrg]
    /\ \/ LET data == [from |-> flight[k], idp |-> config[flight[k]].idp, on |-> config[flight[k]].on]
          IN  /\ cached' = [cached EXCEPT ![k] = data]
              /\ form' = IF k = active /\ data # cached[k] THEN Filled(data) ELSE form
              /\ UNCHANGED <<acts, astray>>
       \/ Act /\ astray' = (astray \/ k = active) /\ UNCHANGED <<cached, form>>
    /\ UNCHANGED <<active, key, config, name, saving, savingOrg, asking>>

-----------------------------------------------------------------------------
(* The organization the page works in.                                     *)

\* Mutant: the queries are invalidated before localStorage has the new organization.
SwitchTooLate(o) ==
    /\ o # active /\ Act
    /\ active' = o /\ key' = o
    /\ flight' = Observe(Refetch(flight, active, key), o, key)
    /\ form' = [Filled(cached[o]) EXCEPT !.name = name[o]]
    /\ astray' = (flight[o] \notin {NoOrg, o})
    /\ UNCHANGED <<config, name, cached, saving, savingOrg, asking>>

\* switchOrganization: all queries are invalidated before React renders, so what is fetched
\* anew at once is the query of the former organization, with the header of the new one. The
\* page then comes to the new one's query, which has become invalid.
Switch(o) ==
    /\ o # active /\ Act
    /\ active' = o /\ key' = o
    /\ flight' = Observe(Refetch(flight, active, o), o, o)
    /\ form' = [Filled(cached[o]) EXCEPT !.name = name[o]]
    /\ astray' = (flight[o] \notin {NoOrg, o})
    /\ UNCHANGED <<config, name, cached, saving, savingOrg, asking>>

OtherTabSwitches(o) ==
    /\ OtherTabs /\ o # key /\ Act
    /\ key' = o /\ astray' = TRUE
    /\ UNCHANGED <<active, config, name, queries, form, saving, savingOrg, asking>>

\* refresh takes up the organization of localStorage. Nothing is invalidated; the query of an
\* organization come to is asked if its answer is missing or old.
Refreshed ==
    /\ asking /\ asking' = FALSE
    /\ \/ /\ active' = key
          /\ form' = [(IF key = active THEN form ELSE Filled(cached[key])) EXCEPT !.name = name[key]]
          /\ \/ key # active /\ flight' = Observe(flight, key, key)
             \/ (key = active \/ cached[key] # NoData) /\ UNCHANGED flight
          /\ UNCHANGED acts
       \/ Act /\ UNCHANGED <<active, form, flight>>
    /\ UNCHANGED <<key, config, name, cached, saving, savingOrg, astray>>

-----------------------------------------------------------------------------
(* The forms.                                                              *)

\* The form of SSO is there when the organization's configuration is.
CanEdit == cached[active] # NoData

TypeSso ==
    /\ CanEdit /\ Act
    /\ \/ form' = [form EXCEPT !.cert = active]
       \/ form' = [form EXCEPT !.idp = active]
       \/ form' = [form EXCEPT !.on = ~@]
    /\ UNCHANGED <<active, key, config, name, queries, saving, savingOrg, asking, astray>>

SaveSso ==
    /\ CanEdit /\ saving = Idle /\ Act
    /\ saving' = [to |-> key, new |-> [idp |-> form.idp, cert |-> form.cert, on |-> form.on]]
    /\ UNCHANGED <<active, key, config, name, queries, form, savingOrg, asking, astray>>

\* upsert_organization_sso_config: an enabled configuration keeps the certificate the server
\* has if none is sent, and must be complete; one that is not enabled is stored as it is.
Stored(s) ==
    [s.new EXCEPT !.cert = IF s.new.on /\ @ = NoOrg THEN config[s.to].cert ELSE @]
Complete(c) == c.on => c.idp # NoOrg /\ c.cert # NoOrg

\* The form may be saved again before the page has fetched what it saved.
SsoSaved ==
    /\ saving # Idle /\ Complete(Stored(saving))
    /\ config' = [config EXCEPT ![saving.to] = Stored(saving)]
    /\ saving' = Idle
    /\ flight' = Refetch(flight, active, key)
    /\ UNCHANGED <<active, key, name, cached, form, savingOrg, asking, acts, astray>>

\* Refused, or failed. The form keeps its fields.
SsoNotSaved ==
    /\ saving # Idle /\ saving' = Idle
    /\ IF Complete(Stored(saving)) THEN Act ELSE UNCHANGED acts
    /\ UNCHANGED <<active, key, config, name, queries, form, savingOrg, asking, astray>>

SaveOrg ==
    /\ savingOrg = Idle /\ ~asking /\ Act
    /\ savingOrg' = [to |-> key, new |-> form.name]
    /\ UNCHANGED <<active, key, config, name, queries, form, saving, asking, astray>>

OrgSaved ==
    /\ savingOrg # Idle /\ savingOrg' = Idle
    /\ name' = [name EXCEPT ![savingOrg.to] = savingOrg.new]
    /\ asking' = TRUE
    /\ UNCHANGED <<active, key, config, queries, form, saving, acts, astray>>

\* The update is refused or fails, and the provider is not asked to refresh.
OrgNotSaved ==
    /\ savingOrg # Idle /\ savingOrg' = Idle /\ Act
    /\ UNCHANGED <<active, key, config, name, queries, form, saving, asking, astray>>

Next ==
    \/ \E o \in Orgs : Answered(o) \/ Switch(o) \/ OtherTabSwitches(o)
    \/ Refreshed \/ TypeSso \/ SaveSso \/ SsoSaved \/ SsoNotSaved \/ SaveOrg \/ OrgSaved
    \/ OrgNotSaved

Spec == Init /\ [][Next]_vars

-----------------------------------------------------------------------------
(* Properties.                                                             *)

\* When its query is answered, the page shows the configuration of the organization it names,
\* although switching has the former one's key answered for the new one: as long as requests
\* have gone where the page's own switch led them.
SettledShowsActive ==
    flight[active] = NoOrg /\ cached[active] # NoData /\ ~astray
        => cached[active].from = active

\* "Your configuration only affects your organization": the certificate an organization has
\* stored is its own, or was typed while the page named it.
CertificateStaysHome == \A o \in Orgs : config[o].cert \in {o, NoOrg}
-----------------------------------------------------------------------------
(* The inductive invariant.                                                *)

\* Unless the page was led astray: the request under the active organization's key names that
\* organization, or there is none and what is cached under the key is its own.
KeyedInv ==
    ~astray =>
        /\ key = active
        /\ \/ flight[active] = active
           \/ /\ flight[active] = NoOrg
              /\ cached[active] # NoData => cached[active].from = active

IInv == TypeOK /\ KeyedInv

\* What the page may hold of a configuration.
Data == [from : Homes, idp : Homes, on : BOOLEAN]
=============================================================================
