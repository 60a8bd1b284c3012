# TLA+ verification of the aries-vcx credential issuance engine

This directory holds TLA+ models of the Issue Credential protocol engine in
this repository, together with TLC configurations and TLAPS proofs. The
engine comprises the Issuer state machine (`IssuerSM`), the Holder handler
(`Holder`) and the C API that reaches a holder's credential object.

## 1. The system (inventory)

| Part | Source | State | Operations |
|---|---|---|---|
| Issuer state machine | `src/aries_vcx/src/handlers/issuance/issuer/state_machine.rs` | `IssuerFullState` (6 variants), `thread_id`; per state: the proposal, the request, `rev_reg_id`, `RevocationInfoV1` (`cred_rev_id`) | `new`, `from_proposal`, `handle_message` (proposal, offer send, request, counter-proposal, problem report, credential send, ack), `find_message_to_handle`, `revoke`, queries |
| Holder handler | `src/aries_vcx/src/handlers/issuance/holder/holder.rs` | `holder_sm: HolderSM` | `create`, `create_from_offer`, `send_proposal`, `send_request`, `reject_offer`, `step`, `update_state`, queries |
| Holder state machine | not under `src/` (spec §4.2, §4.4) | six states, thread id, stored credential | `handle_message`, `find_message_to_handle` |
| Message taxonomy, thread verifier | not under `src/` (spec §3) | – | `from_thread`, `is_reply`, `get_thread_id`, `verify_thread_id` |
| Connection | external collaborator | unread inbound messages (a `HashMap`) | `get_messages`, `update_message_status`, `send_message` |
| Anoncreds backend / revocation registry | external, called from `_create_credential` and `revoke` | next free index (≤ `max_cred_num`), revoked indices | create offer, create credential, revoke, revoke local |
| libvcx C API (holder credential) | `src/libvcx/src/api_c/protocols/credential.rs` | a handle map (in `libvcx_core`, outside `src/`), in-flight tasks | `vcx_credential_*`, each one spawning a task that calls back once |
| did:sov dereferencer, `map!` macro | `src/did_resolver_sov/...`, `src/libvdrtools/...` | none | pure conversions |

**Interactions.** The application of each agent calls one operation at a
time on its own object. The two sides interact only through the
connection. A command such as `CredentialOfferSend` calls the `send_message`
callback, which puts a message into the other side's inbox. A poll
(`update_state`) then does four things in order:
1. read the inbox;
2. let the selector pick one message it is willing to handle;
3. run `handle_message` on that message; `verify_thread_id` runs first;
4. mark the message read.

The inbox is a `HashMap`, so the selector's choice among several
acceptable messages is arbitrary. The issuer's connection may also carry
messages of other interactions.

**Hard behaviours.**
- *Partial failure.* `CredentialSend` has the backend issue the credential,
  which spends a revocation index. Only then does it call the send
  callback. If the send fails, the error is returned with `?` and the
  machine stays in `RequestReceived`, while the index stays spent.
- *Delivered but failed (timeouts).* A send callback can report an error for
  a message it did deliver. The machine then stays in its old state and may
  send again.
- *Thread adoption.* An `Initial` issuer adopts the `@id` of any proposal in
  its inbox (line 224). `CredentialOfferSend` in `ProposalReceived` then
  threads on the proposal's `get_thread_id()` instead (line 247).
- *Selector order.* The selector iterates a HashMap, so its order is random
  (line 140). Foreign messages share the connection.
- *Registry exhaustion.* A revocable credential needs a free index (line 394).
- *Concurrency in the C API.* Each `vcx_credential_*` call runs as a task
  (`execute`, `execute_async`), so two calls on one handle may overlap.

## 2. Modules

| Module | Models | Correspondence |
|---|---|---|
| `IssuanceMessages` | message taxonomy, thread predicates, registry indices | A message is `[type, id, thid, rev]`. `id` is the message's `@id`: the thread's id for a message that opens a thread, otherwise the fresh uuid `FreshId`. `thid` is `~thread.thid`, or `None`. `rev` is the `cred_rev_id` a Credential carries. |
| `Connection` | the two inboxes | `toIssuer`, `toHolder`: sets of unread messages |
| `IssuerSM` | `IssuerSM` | Variables: `iState`, `iThread`, `iStatus`, the stored proposal and request, `iRevReg` (whether the offer named a `rev_reg_id`), `iCredRevId`, and the registry's `issued` and `revoked`. `Handleable` is `find_message_to_handle`. There is one action per group of `handle_message` branches: `IssuerUpdateState`, `IssuerOfferSend`, `IssuerCredentialSend`, `IssuerRevoke`. |
| `HolderSM` | `Holder` and the `HolderSM` it wraps | Variables: `hState`, `hThread`, `hCred`. The actions are `HolderUpdateState` (`update_state`) and `HolderSendProposal`, `HolderSendRequest`, `HolderRejectOffer` (the commands, via `step`). |
| `Issuance` | one interaction: issuer, holder and connection | `Init`, the named steps and `Next`, plus the properties |
| `MC_Issuance` | TLC instance | four thread ids as model values; the foreign messages |
| `CredentialApi` | the libvcx C API (`credential.rs`) driving the holder, composed with `Issuance`'s issuer | Variables: `handle` (the object in `libvcx_core`'s map: `None`, `Live`, `Released`), and per command handle `callSt`, `callOp`, `callRc` (the callbacks its last call invoked), plus `saved` (the last serialized object). `VcxCall` is the synchronous part of every function: the argument checks, then a task is spawned. One action per `vcx_*` function is that function's task: the `libvcx_core` operation and the callback. `vcx_credential_release` is synchronous. |
| `MC_CredentialApi` | TLC instance | the values of `MC_Issuance`, command handles, foreign messages at the holder, the sets of functions the application calls |
| `IssuanceAbstract` | what one interaction promises | `issuerOutcome` (Open, Issued, Failed), `holderOutcome` (Open, Holding, Failed), `issuedRev`, `heldRev`, `revokedFlag`. Actions: `Issue`, `IssuerGivesUp`, `Accept` (only once issued, taking the issued credential), `HolderGivesUp`, `Revoke` (only an issued credential with a revocation id, once). `Issuance` maps onto it through `Abstract` (`AbsIssuerOutcome`: `Finished` with `Success` is Issued, with `Failed` is Failed; `AbsHolderOutcome`; the recorded `cred_rev_id`; the stored credential of a finished holder; whether the registry revoked the recorded index). |
| `IssuanceProofs` | TLAPS proofs | `TypeCorrect`, `AgreementHolds` |
| `RefinementProofs` | TLAPS proof | `Refinement`: `Issuance` implements `IssuanceAbstract` |
| `OfferProofs` | TLAPS proof | `OfferCurrent`: a holder in `OfferReceived` holds an offer the issuer can answer |
| `ThreadProofs` | TLAPS proof | `ThreadStable`: the issuer's thread id is fixed once it leaves `Initial` |
| `IndexProofs` | TLAPS proof | `IndicesHold`: the registry's indices are accounted for, with timeouts |
| `ApiProofs` | TLAPS proofs | `ApiTypeCorrect`, `ApiAgreement`: type correctness and Agreement through the C API |

**Send outcomes.** A call of the send callback has these outcomes:
- `Ok`: the message is delivered and the machine moves on.
- A failure that delivers nothing. This changes no variable (the machine is
  replaced only on `Ok`), so it is a stutter step.
- `TimedOut`, only when `MaySendTimeOut`: the message is delivered, yet an
  error is returned and the machine keeps its old state.
- `Lost`, only for the Credential send: the index is spent, but nothing is
  delivered and the state is unchanged.

**Failed acknowledgement.** `update_state` calls `update_message_status`
after `step()` has replaced the machine (`holder.rs:123-124`). When
`MayAckFail`, the acknowledgement may fail: the new state stays and the
message stays unread (`AckOutcomes`). The issuer's poll and its
acknowledgement are outside `src/`; the model's issuer acknowledgement
always succeeds, so a handled message always leaves the issuer's inbox.

**The C API.** A call whose callback or C string argument is null returns an
error code at once (`Rejected`). Otherwise the task runs later, in any order
with other tasks and with `vcx_credential_release`, and ends with one
callback. The operations of `libvcx_core` behind the tasks are outside
`src/`. Each is modelled as one atomic step on the holder object:
- on an unknown or released handle it fails;
- any operation may fail without change (agency, wallet, parse errors);
- `send_credential_request`, `decline_offer` and `update_state` call the
  `Holder` methods; the callback reports the method's result, so
  `update_state` reports an error when the acknowledgement failed after the
  step;
- `update_state` with a message hands it to `handle_message` directly: no
  selector, no acknowledgement, only `verify_thread_id`;
- queries succeed or fail (`InvalidState`) without change;
- `to_string` saves the object and `from_string` restores it into a new
  handle;
- `delete_credential` succeeds only for a holder that has a credential
  (`Finished`), and, as its documentation says (`credential.rs:183`),
  releases the handle.

The application holds one credential object at a time (`MayCreate`). It
reuses a command handle only after its call completed.

**Backend calls.** Every backend call may fail, so `CredentialNotIssued` is
always enabled in `RequestReceived`.

**Abstracted away.** Payloads, attachments, comments, the credential
preview, attribute encoding and logging are left out. No transition
inspects them.

`CredentialSent` is in the issuer's state set, but no handler enters it:
`CredentialSend` goes straight to `Finished`.

## 3. Runs

All runs use four thread ids: the issuer's own, the holder's own, a
foreign thread `tX`, and `FreshId`. `RegistryCapacity` is 2, so both a
first credential and a retried second one can be created, and a third
attempt meets a full registry. The inbox initially holds a foreign Request
and a foreign ProblemReport on `tX`, so the selector has to keep the
interactions apart. Deadlock is not checked: every state in which both
applications stop calling is legitimate. The engine has no retry loop
(spec §1).

| Run | Config | Expect | Checks | Shows |
|---|---|---|---|---|
| `issuance` | `MC_Issuance.cfg` | pass | `TypeOK`, `Agreement`, `HolderOfferCurrent`, `ThreadIdStable`, `ImplementsAbstract` | With reliable sends and acknowledgements, a finished holder holds the credential the issuer recorded, and a holder in `OfferReceived` answers the issuer's current offer. The issuer's thread never changes once it leaves `Initial`. The outcomes refine `IssuanceAbstract`. |
| `issuance_timeout` | `MC_IssuanceTimeOut.cfg` | pass | `IndicesSpent` | With timeouts (about 50,000 states), revocation indices are accounted for across delivered-but-failed, lost and retried CredentialSends. Every index on its way to the holder, stored, recorded or revoked has been spent. The recorded one is the last spent, so the orphaned ones are exactly the earlier ones, and only the recorded one is revoked. The mutant spends the index only when the send returned Ok; a retry then reuses it. |
| `orphan` | `MC_Orphan.cfg` | violation | `NoOrphanCredential` | A credential created and then lost in sending spends an index nobody records. |
| `timeout_revocable` | `MC_TimeOut.cfg` | violation | `HolderCredentialRevocable` | A Credential that is delivered, with an error reported, and then retried into a ProblemReport: the holder finishes with a credential the issuer cannot revoke. |
| `foreign_proposal` | `MC_ForeignProposal.cfg` | violation | `ThreadIdStable` | A proposal carrying a `thid` is adopted by its `@id`. The offer then moves the thread to the `thid`. |
| `timeout_thread` | `MC_TimeOutThread.cfg` | violation | `ThreadIdStable` | With no foreign message at all: an offer from `Initial` is delivered but reported failed, so the issuer stays `Initial`. It then adopts the holder's counter-proposal `@id`, and its next offer re-threads on the proposal's `thid`. |
| `ack_fail` | `MC_AckFail.cfg` | violation | `HolderOfferCurrent` | An offer whose acknowledgement failed is handled again after the holder's counter-proposal. |
| `ack_fail_outcomes` | `MC_AckFailOutcomes.cfg` | pass | `Agreement`, `ImplementsAbstract` | Failing acknowledgements re-deliver handled messages (a ProblemReport in `ProposalSent` handled again, an old offer taken again), yet the outcomes still refine the abstract interaction and a finished holder holds the recorded credential. |
| `api` | `MC_CredentialApi.cfg` | pass | `ApiTypeOK`, `Agreement`, `CallbackDelivered` | The holder driven only through the C API (create from an offer, send request, decline, both updates), two calls in flight, release at any time, failing acknowledgements; about 155,000 states. |
| `api_housekeeping` | `MC_ApiHousekeeping.cfg` | pass | `Agreement`, `CallbackDelivered` | Serialize, release, deserialize (possibly an older snapshot), delete, every query, one call at a time; about 43,000 states. |

The API runs also put a Credential and a ProblemReport of another
interaction (thread `tX`) in the holder's inbox; only `verify_thread_id`
keeps `update_state_with_message` from taking them. Two command handles are
enough for every pair of overlapping tasks, including an update racing a
release. The housekeeping run uses one command handle to stay within
minutes with all twenty functions callable.

**Fairness.** `ApiSpec` assumes weak fairness of each command handle's task
(`RunTask(c)`): the runtime behind `execute` and `execute_async` runs every
spawned task to completion. Each task is enabled for as long as it is
pending, since failing is always possible. Nothing is assumed of the
applications: they may stop calling at any time.

Every property of a passing run has a mutant: a plausible bug in the mapped
code that TLC catches under the same configuration. Examples:
- `update_state` that never acknowledges;
- `update_state_with_message` without `verify_thread_id`;
- a task that returns on an error without calling back;
- a `from_string` that loses the stored credential;
- a `revoke` that takes the revocation info out of `Finished`, so a retried
  revoke becomes a second abstract `Revoke` (`ImplementsAbstract`).

The mutants live in `IssuerSM`, `HolderSM` and `CredentialApi` and are
listed in `PROJECT.json`.

## 4. Findings

1. **Orphaned revocation index** (`state_machine.rs:284`). Spec §5 says a
   transition that has already committed an external effect moves to its
   post-effect state. `CredentialSend` does not: after the index is spent, a
   failed send leaves the machine in `RequestReceived`.
2. **Delivered-then-failed Credential** (`state_machine.rs:286`). The issuer
   may finish `Failed` with no `cred_rev_id` while the holder stores a
   credential from the first attempt.
3. **Thread id changes** (`state_machine.rs:224` versus `:247`). The thread
   adopted from a proposal's `@id` is replaced by its `thid` when the offer
   is sent.
4. **Stale offer after a failed acknowledgement** (`holder.rs:124`).
   The sequence is:
   1. The holder handles an offer, but `update_message_status` fails.
   2. The holder counter-proposes, and the issuer takes the proposal
      (`ProposalReceived`).
   3. The next `update_state` selects the old offer again.
   4. The holder is in `OfferReceived` while the issuer waits to send a new
      offer.

5. **Thread id changes within one interaction after a timeout**
   (`state_machine.rs:224`, `:234`, `:247`). The sequence is:
   1. `CredentialOfferSend` in `Initial` delivers the offer, but the send
      callback returns an error, so the issuer stays in `Initial`.
   2. The holder takes the offer and counter-proposes on its thread.
   3. The `Initial` issuer adopts the counter-proposal's fresh `@id` as its
      thread id.
   4. The next offer, from `ProposalReceived`, moves the thread back to the
      proposal's `thid`.

   No foreign message is involved (run `timeout_thread`).

## 5. Proofs

The theorems hold for every value of the constants that satisfies their
assumptions:
- `Threads` is any set;
- `None` is not in `Threads`;
- `FreshId` and both parties' thread ids are in `Threads`;
- `RegistryCapacity` is a positive natural;
- the foreign messages are messages.

- **`TypeCorrect`**: `Spec => []TypeOK`. `TypeOK` is not inductive on its
  own. `CredentialOfferSend` in `ProposalReceived` reads the stored
  proposal's thread, so the strengthening adds `ProposalStored`: in
  `ProposalReceived` the stored proposal is a message. The registry bound
  `issued <= RegistryCapacity` is preserved because `_create_credential`
  fails once the registry is full.
- **`AgreementHolds`**: `~MaySendTimeOut => (Spec => []Agreement)`. The
  inductive invariant is `TypeInv /\ CredentialInFlight /\ Agreement`.
  `CredentialInFlight` says that every Credential in the holder's inbox was
  sent by a `CredentialSend` that returned Ok. Such a `CredentialSend`
  finished the issuer with success and recorded that Credential's index.
  The issuer never leaves `Finished`, so the index stays recorded when the
  holder takes the Credential. TLC checked this invariant before the proof
  was written.
- **`Refinement`**: `~MaySendTimeOut => (Spec => ImplementsAbstract)`. The
  inductive invariant `RefInv` is `AgreementInv` and `RevocationRecorded`:
  a `cred_rev_id` is recorded only by a `CredentialSend` that finished with
  success, and the registry has revoked nothing but the recorded index.
  Without `RevocationRecorded` a `revoke` could not be shown to be an
  abstract `Revoke` of an issued credential. One lemma per action shows
  that it is an abstract step or a stutter:
  - a poll taking a ProblemReport in `OfferSent` is `IssuerGivesUp`;
  - `CredentialSend` returning Ok is `Issue`, and a ProblemReport sent
    instead is `IssuerGivesUp`; a lost send changes no outcome;
  - the first `revoke` is `Revoke`; a repeated one is a stutter;
  - the holder taking a Credential is `Accept`, where `CredentialInFlight`
    gives that the issuer issued it with the index it carries;
  - a ProblemReport in `RequestSent` or a successful `reject_offer` is
    `HolderGivesUp`.
  The initial state maps to `AInit`, and the temporal step combines the
  invariant with the step lemma (`PTL`). TLC checked `RefInv` on the
  `issuance` and `ack_fail_outcomes` instances first.

- **`IndicesHold`** (`IndexProofs`): `Spec => []IndicesSpent`. It has no
  hypothesis on the send callback or the acknowledgements, so it covers the
  timeouts the Agreement theorems exclude. The strengthening adds
  `RecordedOnFinish`: a `cred_rev_id` is recorded only on entering
  `Finished`, which the issuer never leaves. So a retried `CredentialSend`
  always starts with nothing recorded and nothing revoked. The index it
  spends is `issued + 1`, and it becomes the new `issued`.
- **`OfferCurrent`** (`OfferProofs`): `Spec => []HolderOfferCurrent` when
  acknowledgements never fail, sends never report an error after
  delivering, and no foreign proposal carries a `thid`
  (`NoForeignCounter`). The strengthening `OfferToken` treats the pending
  offer and the pending counter-proposal as one token passed between the
  sides:
  - at most one offer is in the holder's inbox, and at most one
    counter-proposal in the issuer's;
  - while an offer is pending, the issuer is in a state that can answer it
    and no counter-proposal is pending;
  - a holder in `OfferReceived` has nothing pending in either inbox.

  Each hypothesis is needed:
  - with failing acknowledgements the run `ack_fail` breaks the property;
  - with timeouts a second offer from `Initial` is sent while the first one
    is still pending;
  - a foreign counter-proposal moves the issuer to `ProposalReceived`
    behind the holder's back. TLC found this trace while the proof was
    attempted.
- **`ThreadStable`** (`ThreadProofs`): `Spec => ThreadIdStable`, an action
  property, when sends never report an error after delivering and
  `NoForeignCounter` holds. Acknowledgements may fail. The invariant is:
  - `NothingAnswered`: while the issuer is `Initial`, the holder has no
    offer and no counter-proposal is pending;
  - `ProposalOnThread`: in `ProposalReceived`, the stored proposal's
    `get_thread_id()` is the issuer's thread.

  So the offer sent in `ProposalReceived` keeps the thread. Runs
  `foreign_proposal` and `timeout_thread` show the property failing
  without the two hypotheses.
- **`ApiTypeCorrect`** (`ApiProofs`): `ApiSpec => []ApiTypeOK`, with no
  hypothesis beyond the constants' assumptions. Lemma `VarsStep` shows that
  every API step is one of three kinds:
  - an `Issuance` step other than a holder proposal;
  - a stutter of `Issuance`;
  - one of three steps only the API takes: building a holder from an offer,
    restoring a saved copy, or handing a message in past the selector.
- **`ApiAgreement`** (`ApiProofs`): `ApiSpec => []Agreement` when sends
  never report an error after delivering, and two conditions on the foreign
  messages hold:
  - no foreign proposal reaches the issuer (`NoForeignProposal`);
  - the holder's foreign messages are no offers, and any foreign Credential
    names a foreign thread (`ForeignAtHolder`).

  Acknowledgements may fail. The inductive invariant `ApiAgreementInv` adds
  these conjuncts:
  - both machines and the saved copy are on the interaction's two threads;
  - no proposal is pending, and the issuer never reaches `ProposalReceived`
    (no API function sends one);
  - every offer at the holder names one of those threads;
  - every Credential at the holder names a thread, and one on the
    interaction's thread was sent by a successful `CredentialSend`;
  - a finished saved copy holds the recorded index.

  This is why `verify_thread_id` in `update_state_with_message` is enough to
  keep a foreign Credential out. TLC checked `ApiAgreementInv` on both API
  instances first. With a foreign proposal added, TLC shows `Agreement`
  failing through the API: the `Initial` issuer adopts the other
  interaction.

The proofs are laid out as one lemma per action, with one step per
conjunct that the action can disturb. SMT cannot show `FALSE \in BOOLEAN`,
so those steps use Zenon.

Liveness (`CallbackDelivered`) and everything about `ENABLED` are out of
TLAPS's reach and stay with TLC. The cases excluded by a hypothesis are
false, and each has a violation run:
- with timeouts, Agreement and the refinement fail (run
  `timeout_revocable`) and so does `ThreadIdStable` (run `timeout_thread`);
- with failing acknowledgements, `HolderOfferCurrent` fails (run
  `ack_fail`);
- with a foreign proposal, `ThreadIdStable` fails (run `foreign_proposal`). The `ack_fail_outcomes` run checks the refinement
with failing acknowledgements; the proofs hold for either value of
`MayAckFail` and so cover it too.

## 6. Not modelled, and the plan

- **Lost update in `libvcx_core`.** Two overlapping `update_state` tasks
  on one handle could each take a copy of the object across the network
  awaits and write it back. Whether they do depends on `libvcx_core`'s handle
  map, which is outside `src/`. The spec (§5) forbids concurrent mutation of
  one interaction and does not defend against it. The model makes each
  operation atomic.
- **Protocol liveness.** A holder that sent a request finishes only if the
  issuer's application keeps polling and sending. That is an assumption
  about applications, not something the code guarantees. The deadlock hazard
  at `holder.rs:118` therefore has no property yet.
- **Abstract specification of the negotiation.** `IssuanceAbstract` keeps
  only the outcomes. A finer abstraction (propose, offer, request, issue)
  would also constrain the order of the negotiation; it is not written yet.
- **Not worth modelling.** Credential preview, attribute encoding, the
  did:sov dereferencer and the `map!` macro are pure conversions with no
  protocol state.
