--------------------------------- MODULE BackupReducer ---------------------------------
(* The backup half of anastasis-core/src/index.ts: the reducer of a user who chooses    *)
(* providers, authentication methods and policies, and has the secret uploaded, with    *)
(* the providers as it meets them. An action that returns an error, or throws, leaves   *)
(* the state of the user interface as it was (use-anastasis-reducer.ts).               *)
EXTENDS Naturals, Sequences, FiniteSets, TLC, SequencesExt

CONSTANTS
    Undefined,          \* JavaScript's undefined
    Urls,               \* providers
    Countries,          \* country |-> [continent, providers], a sequence of Urls
    AuthMethods,        \* what the user adds: [type, secret]
    Identities,         \* what the user enters as attributes
    Paid,               \* providers that want to be paid
    MaxMethodSelections, MaxPolicyEvaluations,
    MaxMethods,         \* bound: methods
    Secrets,            \* what the user has backed up
    MaxEdits            \* bound: entries, uploads and outages

VARIABLES
    backup,     \* the reducer state of the backup
    servers,    \* the providers
    edits,      \* work done, which bounds the model
    flaws       \* history: what makes a backup useless

Policy == INSTANCE PolicySuggestion

(* A provider: whether it answers, what types of authentication it offers, what it      *)
(* stores, what it has asked to be paid for and what was paid.                       *)
NewServer == [status |-> "ok", types |-> {m.type : m \in AuthMethods}, truths |-> <<>>, docs |-> [a \in Identities |-> <<>>], orders |-> {}, paid |-> {}]

(* authentication_providers: [url, status], in the order in which they were added      *)
ProvidersOf(country) == [i \in DOMAIN Countries[country].providers |->
                            [url |-> Countries[country].providers[i], status |-> "unknown"]]
UrlsOf(providers) == {providers[i].url : i \in DOMAIN providers}
StatusOf(providers, url) == LET hits == {i \in DOMAIN providers : providers[i].url = url}
                            IN IF hits = {} THEN Undefined ELSE providers[CHOOSE i \in hits : TRUE].status
WithProvider(providers, url, status) ==
    IF url \in UrlsOf(providers)
    THEN [i \in DOMAIN providers |-> IF providers[i].url = url THEN [url |-> url, status |-> status] ELSE providers[i]]
    ELSE Append(providers, [url |-> url, status |-> status])

(* getProviderInfo, for all of them                                                *)
Asked(providers) == [i \in DOMAIN providers |-> [providers[i] EXCEPT !.status = servers[providers[i].url].status]]

StartState == [state |-> "CONTINENT_SELECTING", continent |-> Undefined, providers |-> <<>>, attributes |-> Undefined,
               methods |-> <<>>, policies |-> <<>>, policyProviders |-> <<>>, secret |-> Undefined,
               data |-> Undefined, policyPayments |-> <<>>]

Edit == edits < MaxEdits /\ edits' = edits + 1
In(s) == backup.state = s
Becomes(b) == backup' = b /\ UNCHANGED <<servers, flaws>>

-----------------------------------------------------------------------------
(* Where the user comes from                                                      *)
SelectContinent(c) ==
    /\ In("CONTINENT_SELECTING") \/ In("COUNTRY_SELECTING")
    /\ Becomes([backup EXCEPT !.state = "COUNTRY_SELECTING", !.continent = c])
    /\ Edit

SelectCountry(c) ==
    /\ In("COUNTRY_SELECTING") /\ Countries[c].continent = backup.continent
    /\ Becomes([backup EXCEPT !.state = "USER_ATTRIBUTES_COLLECTING", !.providers = ProvidersOf(c)])
    /\ Edit

EnterUserAttributes(a) ==
    /\ In("USER_ATTRIBUTES_COLLECTING")
    /\ Becomes([backup EXCEPT !.state = "AUTHENTICATIONS_EDITING", !.attributes = a, !.providers = Asked(@)])
    /\ Edit

(* "back", which only changes the name of the state                                *)
Previous == [COUNTRY_SELECTING |-> "CONTINENT_SELECTING",
             USER_ATTRIBUTES_COLLECTING |-> "COUNTRY_SELECTING",
             AUTHENTICATIONS_EDITING |-> "USER_ATTRIBUTES_COLLECTING",
             POLICIES_REVIEWING |-> "AUTHENTICATIONS_EDITING",
             SECRET_EDITING |-> "POLICIES_REVIEWING",
             POLICIES_PAYING |-> "SECRET_EDITING",
             TRUTHS_PAYING |-> "SECRET_EDITING",
             BACKUP_FINISHED |-> "SECRET_EDITING"]

Back == backup.state \in DOMAIN Previous /\ Becomes([backup EXCEPT !.state = Previous[@]]) /\ UNCHANGED edits

-----------------------------------------------------------------------------
(* Methods and policies                                                           *)
AddAuthentication(m) ==
    /\ In("AUTHENTICATIONS_EDITING")
    /\ Becomes([backup EXCEPT !.methods = Append(@, m)])
    /\ Edit

DeleteAuthentication(i) ==
    /\ In("AUTHENTICATIONS_EDITING") /\ i \in DOMAIN backup.methods
    /\ Becomes([backup EXCEPT !.methods = RemoveAt(@, i)])
    /\ Edit

AddProvider(url) ==
    /\ In("AUTHENTICATIONS_EDITING")
    /\ Becomes([backup EXCEPT !.providers = WithProvider(@, url, servers[url].status)])
    /\ Edit

DeleteProvider(url) ==
    /\ In("AUTHENTICATIONS_EDITING")
    /\ Becomes([backup EXCEPT !.providers = SelectSeq(@, LAMBDA p : p.url # url)])
    /\ Edit

(* nextFromAuthenticationsEditing: providers that did not answer well are left out.     *)
NextFromAuthenticationsEditing ==
    /\ In("AUTHENTICATIONS_EDITING") /\ backup.methods # <<>>
    /\ LET working == SelectSeq(backup.providers, LAMBDA p : p.status = "ok")
           providers == [i \in DOMAIN working |-> [url |-> working[i].url, types |-> servers[working[i].url].types]]
       IN Becomes([backup EXCEPT !.state = "POLICIES_REVIEWING",
                                 !.policies = Policy!SuggestPolicies(backup.methods, providers),
                                 !.policyProviders = [i \in DOMAIN working |-> working[i].url]])
    /\ UNCHANGED edits

NextFromPoliciesReviewing ==
    /\ In("POLICIES_REVIEWING")
    /\ Becomes([backup EXCEPT !.state = "SECRET_EDITING"])
    /\ UNCHANGED edits

DeletePolicy(i) ==
    /\ In("POLICIES_REVIEWING") /\ i \in DOMAIN backup.policies
    /\ Becomes([backup EXCEPT !.policies = RemoveAt(@, i)])
    /\ Edit

UpdatePolicy(i, p) ==
    /\ In("POLICIES_REVIEWING") /\ i \in DOMAIN backup.policies
    /\ Becomes([backup EXCEPT !.policies[i] = p])
    /\ Edit

AddPolicy(p) ==
    /\ In("POLICIES_REVIEWING")
    /\ Becomes([backup EXCEPT !.policies = Append(@, p)])
    /\ Edit

(* Mutant: the recovery data that was prepared for another secret is kept.            *)
EnterSecretOnly(s) ==
    /\ In("SECRET_EDITING")
    /\ Becomes([backup EXCEPT !.secret = s])
    /\ UNCHANGED edits

(* enterSecret, which invalidates the recovery data                                 *)
EnterSecret(s) ==
    /\ In("SECRET_EDITING")
    /\ Becomes([backup EXCEPT !.secret = s, !.data = Undefined])
    /\ UNCHANGED edits

-----------------------------------------------------------------------------
(* Uploads. A truth is known by its uuid, which stands for its random key and key       *)
(* share too; data.number is the number of the recovery data, so that uuids differ.    *)
Uuid(number, ref) == <<number, ref>>

(* What the recovery data was prepared from. The reducer does not keep it: it reads       *)
(* the state again when it uploads.                                                *)
Sources == [policies |-> backup.policies, methods |-> backup.methods, attributes |-> backup.attributes,
            secret |-> backup.secret]

(* prepareRecoveryData: a truth for every pair of method and provider, found by its       *)
(* first place in the policies.                                                    *)
Places(policies) == FoldLeft(LAMBDA all, p : all \o [i \in DOMAIN policies[p] |-> <<p, i>>], <<>>, [p \in DOMAIN policies |-> p])
RefAt(policies, place) == policies[place[1]][place[2]]
IsFirst(policies, places, x) ==
    \A i \in DOMAIN places : RefAt(policies, places[i]) = RefAt(policies, x) =>
        \E j \in 1 .. i : places[j] = x

PrepareRecoveryData(number) ==
    LET policies == backup.policies
        all == Places(policies)
        places == SelectSeq(all, LAMBDA x : IsFirst(policies, all, x))
    IN [places |-> [i \in DOMAIN places |-> [place |-> places[i], uuid |-> Uuid(number, RefAt(policies, places[i]))]],
        doc |-> [number |-> number, secret |-> backup.secret,
                 policies |-> [p \in DOMAIN policies |-> [i \in DOMAIN policies[p] |-> Uuid(number, policies[p][i])]],
                 escrow |-> [u \in {Uuid(number, RefAt(policies, all[i])) : i \in DOMAIN all} |->
                                [url |-> u[2].provider, type |-> backup.methods[u[2].method].type]]],
        from |-> Sources]

(* It throws when a policy names a provider or a method that is not there.              *)
Preparable ==
    \A p \in DOMAIN backup.policies : \A i \in DOMAIN backup.policies[p] :
        /\ backup.policies[p][i].provider \in UrlsOf(backup.providers)
        /\ backup.policies[p][i].method \in DOMAIN backup.methods

(* A provider as POST /truth finds it: an order for the truth, unless it has been paid;   *)
(* the truth that it has is compared with the new one, the key share is not.          *)
TruthAnswer(server, url, uuid, truth) ==
    IF server.status # "ok" THEN "failed"
    ELSE IF url \in Paid /\ uuid \notin server.paid THEN "402"
    ELSE IF uuid \in DOMAIN server.truths /\ server.truths[uuid].method # truth.method THEN "409"
    ELSE "204"

(* The upload of one truth, of the method and to the provider that are now at its place   *)
(* in the policies; acc.stop once the function has returned or thrown.                *)
UploadTruth(acc, entry) ==
    LET here == entry.place[1] \in DOMAIN backup.policies /\ entry.place[2] \in DOMAIN backup.policies[entry.place[1]]
        ref == RefAt(backup.policies, entry.place)
        url == ref.provider
        usable == here /\ ref.method \in DOMAIN backup.methods /\ StatusOf(backup.providers, url) = "ok"
        truth == [method |-> backup.methods[ref.method], for |-> backup.attributes]
        answer == TruthAnswer(acc.servers[url], url, entry.uuid, truth)
    IN IF acc.stop \/ ~usable THEN [acc EXCEPT !.stop = TRUE]
       ELSE IF answer = "402" THEN [acc EXCEPT !.servers[url].orders = @ \cup {entry.uuid}, !.pay = TRUE]
       ELSE IF answer = "204" THEN [acc EXCEPT !.servers[url].truths = @ @@ (entry.uuid :> truth)]
       ELSE [acc EXCEPT !.stop = TRUE]

(* The upload of the document. A provider that wants to be paid asks for a fresh order     *)
(* unless the request carries one that has been paid.                               *)
PolicyOrder(server, url) == Uuid(Cardinality(server.orders), [method |-> 0, provider |-> url])

(* The document with the secret that the user had entered, which only properties read    *)
Signed(doc) == doc @@ [entered |-> IF backup.secret = Undefined THEN doc.secret ELSE backup.secret]

UploadDocument(acc, url, doc) ==
    LET server == acc.servers[url]
        known == url \in DOMAIN backup.policyPayments
        order == IF known THEN backup.policyPayments[url] ELSE PolicyOrder(server, url)
    IN IF acc.stop \/ StatusOf(backup.providers, url) # "ok" \/ server.status # "ok" THEN [acc EXCEPT !.stop = TRUE]
       ELSE IF url \in Paid /\ order \notin server.paid
       THEN [acc EXCEPT !.servers[url].orders = @ \cup {order}, !.asked = @ @@ (url :> order)]
       ELSE [acc EXCEPT !.servers[url].docs[backup.attributes] = Append(@, Signed(doc))]

(* uploadSecret. The number of this upload stands for the fresh random values.          *)
UploadSecret ==
    /\ In("SECRET_EDITING") \/ In("TRUTHS_PAYING") \/ In("POLICIES_PAYING")
    /\ backup.data # Undefined \/ Preparable
    /\ \E data \in {IF backup.data = Undefined THEN PrepareRecoveryData(edits) ELSE backup.data} :
       \E truths \in {FoldLeft(UploadTruth, [servers |-> servers, pay |-> FALSE, stop |-> FALSE, asked |-> <<>>], data.places)} :
       LET docs == FoldLeft(LAMBDA acc, url : UploadDocument(acc, url, data.doc), truths, backup.policyProviders)
           done == IF truths.stop \/ truths.pay THEN truths ELSE docs
           kept == [backup EXCEPT !.data = data]
       IN /\ servers' = done.servers
          /\ backup' = IF done.stop THEN backup
                       ELSE IF done.pay THEN [kept EXCEPT !.state = "TRUTHS_PAYING"]
                       ELSE IF done.asked # <<>> THEN [kept EXCEPT !.state = "POLICIES_PAYING", !.policyPayments = done.asked]
                       ELSE [kept EXCEPT !.state = "BACKUP_FINISHED", !.secret = Undefined]
          /\ flaws' = flaws
                \cup (IF data.from # [Sources EXCEPT !.secret = data.from.secret] THEN {"prepared for other policies"} ELSE {})
                \cup (IF data.from.policies = <<>> \/ \E p \in DOMAIN data.from.policies : data.from.policies[p] = <<>>
                      THEN {"empty policies"} ELSE {})
                \cup (IF data.from.secret = Undefined THEN {"no secret"} ELSE {})
    /\ IF In("TRUTHS_PAYING") THEN UNCHANGED edits ELSE Edit

(* The user's wallet pays what a provider asked for.                                  *)
PayProvider(url) ==
    /\ servers[url].orders # servers[url].paid
    /\ servers' = [servers EXCEPT ![url].paid = servers[url].orders]
    /\ UNCHANGED <<backup, edits, flaws>>

-----------------------------------------------------------------------------
(* What a document promises: whoever can answer the methods of one of its policies has     *)
(* the secret that was entered last when it was uploaded.                            *)
Usable(identity, doc) ==
    /\ doc.policies # <<>> /\ doc.secret = doc.entered
    /\ \A p \in DOMAIN doc.policies :
          /\ doc.policies[p] # <<>>
          /\ \A i \in DOMAIN doc.policies[p] :
                LET u == doc.policies[p][i]
                    stored == servers[doc.escrow[u].url].truths
                IN /\ u \in DOMAIN stored
                   /\ stored[u].for = identity
                   /\ stored[u].method.type = doc.escrow[u].type
-----------------------------------------------------------------------------
(* Where a behaviour starts: at the beginning; with attributes and methods, and maybe the    *)
(* secret, entered (the user may have come back to the methods); and,                  *)
(* to check the suggestions, with any methods, and providers that offer any types.       *)
FirstCountry == CHOOSE c \in DOMAIN Countries : TRUE
Prepared(methods, secret) ==
    [StartState EXCEPT !.state = "AUTHENTICATIONS_EDITING", !.continent = Countries[FirstCountry].continent,
        !.providers = [i \in DOMAIN ProvidersOf(FirstCountry) |-> [ProvidersOf(FirstCountry)[i] EXCEPT !.status = "ok"]],
        !.attributes = CHOOSE a \in Identities : TRUE, !.methods = methods, !.secret = secret]

BackupIdle ==
    /\ backup = StartState /\ servers = [url \in Urls |-> NewServer] /\ edits = 0 /\ flaws = {}

BackupInit ==
    /\ flaws = {}
    /\ \/ /\ backup \in {StartState} \cup {Prepared(SetToSeq(AuthMethods), s) : s \in {Undefined, CHOOSE s \in Secrets : TRUE}}
          /\ servers = [url \in Urls |-> NewServer]
          /\ edits = 0
       \/ /\ \E n \in 1 .. MaxMethods : \E methods \in [1 .. n -> AuthMethods] : backup = Prepared(methods, Undefined)
          /\ servers \in [Urls -> {[NewServer EXCEPT !.types = types] : types \in SUBSET {m.type : m \in AuthMethods}}]
          /\ edits = MaxEdits

(* A provider fails, or comes back.                                                 *)
Outage(url, status) ==
    /\ servers[url].status # status
    /\ servers' = [servers EXCEPT ![url].status = status]
    /\ Edit
    /\ UNCHANGED <<backup, flaws>>

SomePolicies == {<<>>} \cup {<<[method |-> 1, provider |-> url]>> : url \in Urls}

BackupNext ==
    \/ \E c \in DOMAIN Countries : SelectContinent(Countries[c].continent) \/ SelectCountry(c)
    \/ \E a \in Identities : EnterUserAttributes(a)
    \/ Back
    \/ Len(backup.methods) < MaxMethods /\ \E m \in AuthMethods : AddAuthentication(m)
    \/ \E i \in 1 .. MaxMethods : DeleteAuthentication(i) \/ DeletePolicy(i) \/ \E p \in SomePolicies : UpdatePolicy(i, p)
    \/ \E url \in Urls : AddProvider(url) \/ DeleteProvider(url) \/ PayProvider(url)
    \/ NextFromAuthenticationsEditing \/ NextFromPoliciesReviewing
    \/ \E p \in SomePolicies : AddPolicy(p)
    \/ \E s \in Secrets : EnterSecret(s)
    \/ UploadSecret
=============================================================================
