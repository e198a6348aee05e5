-------------------------------- MODULE RecoveryReducer --------------------------------
(* The recovery half of anastasis-core/src/index.ts, for the same user on another         *)
(* device, who may mistype the attributes. The providers are those of BackupReducer.      *)
EXTENDS BackupReducer

VARIABLES
    recovery    \* the reducer state of the recovery

reducerVars == <<backup, servers, edits, flaws, recovery>>

RecoveryStart == [state |-> "CONTINENT_SELECTING", continent |-> Undefined, providers |-> <<>>, attributes |-> Undefined,
                  doc |-> Undefined, version |-> Undefined, provider |-> Undefined, selected |-> Undefined,
                  feedback |-> <<>>, shares |-> {}, secret |-> Undefined]

Recovering(s) == recovery.state = s
Turns(r) == recovery' = r /\ UNCHANGED <<backup, servers, flaws>>

-----------------------------------------------------------------------------
RecoverySelectContinent(c) ==
    /\ Recovering("CONTINENT_SELECTING") \/ Recovering("COUNTRY_SELECTING")
    /\ Turns([recovery EXCEPT !.state = "COUNTRY_SELECTING", !.continent = c])
    /\ UNCHANGED edits

RecoverySelectCountry(c) ==
    /\ Recovering("COUNTRY_SELECTING") /\ Countries[c].continent = recovery.continent
    /\ Turns([recovery EXCEPT !.state = "USER_ATTRIBUTES_COLLECTING", !.providers = ProvidersOf(c)])
    /\ UNCHANGED edits

RecoveryPrevious == [COUNTRY_SELECTING |-> "CONTINENT_SELECTING",
                     USER_ATTRIBUTES_COLLECTING |-> "COUNTRY_SELECTING",
                     SECRET_SELECTING |-> "USER_ATTRIBUTES_COLLECTING",
                     CHALLENGE_SELECTING |-> "SECRET_SELECTING",
                     CHALLENGE_SOLVING |-> "CHALLENGE_SELECTING",
                     RECOVERY_FINISHED |-> "CHALLENGE_SELECTING"]

RecoveryBack ==
    /\ recovery.state \in DOMAIN RecoveryPrevious
    /\ Turns([recovery EXCEPT !.state = RecoveryPrevious[@]])
    /\ UNCHANGED edits

AddProviderRecovery(url) ==
    /\ Recovering("SECRET_SELECTING")
    /\ Turns([recovery EXCEPT !.providers = WithProvider(@, url, servers[url].status)])
    /\ Edit

DeleteProviderRecovery(url) ==
    /\ Recovering("SECRET_SELECTING")
    /\ Turns([recovery EXCEPT !.providers = SelectSeq(@, LAMBDA p : p.url # url)])
    /\ Edit

NextFromSecretSelecting ==
    /\ Recovering("SECRET_SELECTING")
    /\ Turns([recovery EXCEPT !.state = "CHALLENGE_SELECTING"])
    /\ UNCHANGED edits

(* downloadPolicy: the first document that a provider has for the user. It throws when      *)
(* it comes to a provider whose answer was an error (getProviderInfo gives code where       *)
(* error_code is looked for, so that this answer counts as good), and when the document     *)
(* names a provider that is unknown or does not work.                                *)
DocumentAt(r, url) ==
    LET docs == servers[url].docs[r.attributes]
    IN IF r.version = Undefined THEN (IF docs = <<>> THEN Undefined ELSE Last(docs))
       ELSE IF r.version \in DOMAIN docs THEN docs[r.version] ELSE Undefined

DownloadPolicy(r) ==
    LET asked == Asked(r.providers)
        looked == SelectSeq(asked, LAMBDA p : p.status # "down" /\ (r.provider = Undefined \/ r.provider = p.url))
        stops == {i \in DOMAIN looked : looked[i].status = "error" \/ DocumentAt(r, looked[i].url) # Undefined}
        doc == DocumentAt(r, looked[Min(stops)].url)
        throws == \/ looked[Min(stops)].status = "error"
                  \/ \E u \in DOMAIN doc.escrow : StatusOf(asked, doc.escrow[u].url) # "ok"
    IN IF stops = {} \/ throws THEN Turns(recovery)
       ELSE Turns([r EXCEPT !.state = "SECRET_SELECTING", !.doc = doc])

RecoveryEnterUserAttributes(a) ==
    /\ Recovering("USER_ATTRIBUTES_COLLECTING")
    /\ DownloadPolicy([recovery EXCEPT !.attributes = a, !.providers = Asked(@)])
    /\ UNCHANGED edits

ChangeVersion(url, v) ==
    /\ Recovering("SECRET_SELECTING")
    /\ DownloadPolicy([recovery EXCEPT !.version = v, !.provider = url])
    /\ Edit

-----------------------------------------------------------------------------
(* Mutant: a policy is taken when one of its key shares is there.                     *)
CompleteWithOne(r, p) == \E i \in DOMAIN r.doc.policies[p] : r.doc.policies[p][i] \in r.shares

(* tryRecoverSecret: the first policy whose key shares are all there                  *)
Complete(r, p) == \A i \in DOMAIN r.doc.policies[p] : r.doc.policies[p][i] \in r.shares

TryRecoverSecret(r) ==
    IF \E p \in DOMAIN r.doc.policies : Complete(r, p)
    THEN [r EXCEPT !.state = "RECOVERY_FINISHED", !.selected = Undefined, !.secret = r.doc.secret]
    ELSE r

(* requestTruth. The provider, which is not modelled here, may answer anything that it     *)
(* has no reason to refuse: with the key share (to the right answer, and later to any       *)
(* request for a wire transfer that has come), with 403 or 202, or with an error. The      *)
(* key share can only be decrypted by whom it was made for.                           *)
SolvedBy(r, u) ==
    TryRecoverSecret([r EXCEPT !.state = "CHALLENGE_SELECTING", !.shares = @ \cup {u}, !.feedback = u :> "solved" @@ @])

Answered(r, u, answered) ==
    LET server == servers[r.doc.escrow[u].url]
        has == u \in DOMAIN server.truths
        iban == has /\ server.truths[u].method.type = "iban"
        solving(f) == [r EXCEPT !.state = "CHALLENGE_SOLVING", !.feedback = u :> f @@ @]
    IN IF server.status # "ok" \/ ~has THEN {}
       ELSE {solving(f) : f \in IF iban THEN {"iban"} ELSE {"open"}}
            \cup (IF (answered \/ iban) /\ server.truths[u].for = r.attributes THEN {SolvedBy(r, u)} ELSE {})

SelectChallenge(u) ==
    /\ Recovering("CHALLENGE_SELECTING") /\ u \in DOMAIN recovery.doc.escrow
    /\ \E r \in Answered([recovery EXCEPT !.selected = u], u, FALSE) : Turns(r)
    /\ UNCHANGED edits

SolveChallenge ==
    /\ Recovering("CHALLENGE_SOLVING") /\ recovery.selected \in DOMAIN recovery.doc.escrow
    /\ \E r \in Answered(recovery, recovery.selected, TRUE) : Turns(r)
    /\ UNCHANGED edits

(* pollChallenges: every wire transfer that is waited for. What comes of it is left to       *)
(* the state of the last one, and selected stays.                                     *)
PollChallenges ==
    /\ Recovering("CHALLENGE_SELECTING")
    /\ LET waiting == {u \in DOMAIN recovery.feedback \cap DOMAIN recovery.doc.escrow : recovery.feedback[u] = "iban"}
           poll(rs, u) == UNION {IF r.state = "RECOVERY_FINISHED" THEN {r} ELSE {r} \cup Answered(r, u, TRUE) : r \in rs}
       IN \E r \in FoldLeft(poll, {recovery}, SetToSeq(waiting)) : Turns(r)
    /\ UNCHANGED edits

NextFromChallengeSelecting ==
    /\ Recovering("CHALLENGE_SELECTING")
    /\ TryRecoverSecret(recovery).state = "RECOVERY_FINISHED"
    /\ Turns(TryRecoverSecret(recovery))
    /\ UNCHANGED edits

RecoveryIdle == BackupIdle /\ recovery = RecoveryStart
RecoveryInit == BackupInit /\ recovery = RecoveryStart

RecoveryNext ==
    \/ \E c \in DOMAIN Countries : RecoverySelectContinent(Countries[c].continent) \/ RecoverySelectCountry(c)
    \/ \E a \in Identities : RecoveryEnterUserAttributes(a)
    \/ RecoveryBack
    \/ \E url \in Urls : AddProviderRecovery(url) \/ DeleteProviderRecovery(url) \/ \E v \in 1 .. 2 : ChangeVersion(url, v)
    \/ NextFromSecretSelecting \/ NextFromChallengeSelecting
    \/ recovery.doc # Undefined /\ \E u \in DOMAIN recovery.doc.escrow : SelectChallenge(u)
    \/ SolveChallenge \/ PollChallenges

(* The user starts over on another device, when there is a backup.                      *)
Lost == [StartState EXCEPT !.state = "LOST"]
LoseDevice ==
    /\ ~In("LOST")
    /\ \E url \in Urls, a \in Identities : servers[url].docs[a] # <<>>
    /\ backup' = Lost
    /\ UNCHANGED <<servers, edits, flaws, recovery>>

ReducerNext ==
    /\ flaws = {}
    /\ \/ BackupNext /\ UNCHANGED recovery
       \/ \E url \in Urls, s \in {"ok", "down", "error"} : Outage(url, s) /\ UNCHANGED recovery
       \/ LoseDevice
       \/ In("LOST") /\ RecoveryNext

-----------------------------------------------------------------------------
(* A document that a provider has can be used by the user whom it was made for, as long     *)
(* as the user did not run into one of the flaws.                                     *)
DocumentsUsable ==
    flaws = {} => \A url \in Urls, a \in Identities : \A v \in DOMAIN servers[url].docs[a] : Usable(a, servers[url].docs[a][v])

(* A secret is recovered exactly with the answers to all methods of one policy.            *)
SecretEarned ==
    flaws = {} /\ recovery.state = "RECOVERY_FINISHED" =>
        /\ recovery.secret \in Secrets
        /\ \E p \in DOMAIN recovery.doc.policies : \A i \in DOMAIN recovery.doc.policies[p] :
              LET u == recovery.doc.policies[p][i]
              IN u \in recovery.shares /\ u \in DOMAIN servers[u[2].provider].truths

(* The suggested policies are the best ones.                                          *)
SuggestionsBest ==
    [][backup.state = "AUTHENTICATIONS_EDITING" /\ backup'.state = "POLICIES_REVIEWING" =>
          LET urls == backup'.policyProviders
          IN Policy!BestSuggestion(backup.methods, [i \in DOMAIN urls |-> [url |-> urls[i], types |-> servers[urls[i]].types]],
                                   backup'.policies)]_reducerVars
=============================================================================
