----------------------------- MODULE SyncPairing -----------------------------
(***************************************************************************)
(* How devices and a hub come to share a key each, use it, and end it:     *)
(* pairingGate on the hub, pair and HttpBackend on the devices. Requests   *)
(* and replies are lost, late and delivered again; the hub restarts.       *)
(*                                                                         *)
(* A call's number stands for what is fresh in it: its nonce, and for a    *)
(* pairing call the device's half of the exchange; a pairing's id stands   *)
(* for the hub's half. Something sealed can be opened by whoever has the   *)
(* secret it was sealed with. Ciphers, names and times are left out.       *)
(***************************************************************************)
EXTENDS Naturals, Sequences, FiniteSets

CONSTANTS
  Phone,       \* the devices
  MaxCodes,     \* bound on codes the hub shows
  MaxCalls,     \* bound on the devices' calls
  MaxRestarts   \* bound on the hub's restarts

ASSUME PairingAssumption == MaxCodes \in Nat /\ MaxCalls \in Nat /\ MaxRestarts \in Nat

VARIABLES
  shown,      \* how many codes the hub has shown
  code,       \* the code that pairs, 0 when none is open
  pairings,   \* what the hub keeps of its pairings
  saved,      \* what it has saved of them
  forwarded,  \* calls the hub's routes have not yet answered
  requests,   \* the devices' calls, by number, as they cross the wire
  replies,    \* the hub's replies
  paired,     \* the pairing each device keeps, NoPairing for none
  asking,     \* the call each device waits for, 0 for none
  told,       \* (history) what each device's last call came to
  unlinks,    \* (history) pairings the hub's user has ended
  partings,   \* (history) pairings a device has asked to end
  forgotten,  \* (history) unlinked pairings the hub has dropped after their time
  restarts

pairingVars == <<shown, code, pairings, saved, forwarded, requests, replies, paired, asking, told, unlinks, partings,
                 forgotten, restarts>>

hubVars == <<shown, code, pairings, saved, forwarded, unlinks, forgotten>>
deviceVars == <<requests, paired, asking, told, partings>>

(* A secret is a code's or that of an exchange between a device's half and the hub's. *)
CodeSecret(c) == [code |-> c, device |-> 0, hub |-> 0]
SharedSecret(device, hub) == [code |-> 0, device |-> device, hub |-> hub]

NoPairing == [id |-> 0, key |-> CodeSecret(0)]
Nothing == [call |-> "none", pairing |-> NoPairing, as |-> "nothing"]

PairingInit ==
  /\ shown = 0 /\ code = 0
  /\ pairings = {} /\ saved = {} /\ forwarded = {}
  /\ requests = <<>> /\ replies = {}
  /\ paired = [d \in Phone |-> NoPairing]
  /\ asking = [d \in Phone |-> 0]
  /\ told = [d \in Phone |-> Nothing]
  /\ unlinks = {} /\ partings = {} /\ forgotten = {} /\ restarts = 0

(* What the hub's user does. *)
openCode ==
  /\ shown < MaxCodes
  /\ shown' = shown + 1
  /\ code' = shown'
  /\ UNCHANGED <<pairings, saved, forwarded, unlinks, forgotten, deviceVars, replies, restarts>>

(* Closed, or its ten minutes are over. *)
closeCode ==
  /\ code # 0
  /\ code' = 0
  /\ UNCHANGED <<shown, pairings, saved, forwarded, unlinks, forgotten, deviceVars, replies, restarts>>

(* Every change drops the unlinked pairings whose time is over, and saves the rest. *)
changed(now) ==
  /\ pairings' = {p \in now : ~p.over}
  /\ saved' = pairings'
  /\ forgotten' = forgotten \cup {p.id : p \in {q \in now : q.over}}

unlink(p) ==
  /\ ~p.unlinked
  /\ changed((pairings \ {p}) \cup {[p EXCEPT !.unlinked = TRUE]})
  /\ unlinks' = unlinks \cup {p.id}
  /\ UNCHANGED <<shown, code, forwarded, deviceVars, replies, restarts>>

(* Thirty days after it was unlinked. *)
Lapse(p) ==
  /\ p.unlinked /\ ~p.over
  /\ pairings' = (pairings \ {p}) \cup {[p EXCEPT !.over = TRUE]}
  /\ saved' = (saved \ {p}) \cup {[p EXCEPT !.over = TRUE]}
  /\ UNCHANGED <<shown, code, forwarded, unlinks, forgotten, deviceVars, replies, restarts>>

Restart ==
  /\ restarts < MaxRestarts /\ restarts' = restarts + 1
  /\ code' = 0 /\ pairings' = saved /\ forwarded' = {}
  /\ UNCHANGED <<shown, saved, unlinks, forgotten, deviceVars, replies>>

(* A device's calls. A backend keeps the pairing it was made with. *)
Call(d, kind, secret, label) ==
  /\ asking[d] = 0 /\ Len(requests) < MaxCalls
  /\ requests' = Append(requests, [call |-> kind, secret |-> secret, pairing |-> label, by |-> d])
  /\ asking' = [asking EXCEPT ![d] = Len(requests')]
  /\ told' = [told EXCEPT ![d] = Nothing]
  /\ UNCHANGED <<hubVars, replies, paired, restarts>>

(* The user types a code that is or was on the hub's screen. *)
pair(d) == \E c \in 1..shown : Call(d, "pair", CodeSecret(c), NoPairing) /\ UNCHANGED partings

post(d) == paired[d] # NoPairing /\ Call(d, "sync", paired[d].key, paired[d]) /\ UNCHANGED partings

unpair(d) ==
  /\ paired[d] # NoPairing
  /\ Call(d, "unpair", paired[d].key, paired[d])
  /\ partings' = partings \cup {paired[d].id}

(* The hub's reply to call n, sealed with the secret the request was opened with. *)
Reply(n, status, id) ==
  replies' = replies \cup {[call |-> n, secret |-> requests[n].secret, status |-> status, id |-> id]}

enrol(n) ==
  /\ requests[n].call = "pair"
  /\ code # 0 /\ requests[n].secret = CodeSecret(code)
  /\ LET id == 1 + Cardinality({r \in replies : r.status = "paired"})
     IN /\ changed(pairings \cup {[id |-> id, key |-> SharedSecret(n, id), from |-> code, unlinked |-> FALSE, over |-> FALSE]})
        /\ Reply(n, "paired", id)
  /\ code' = 0
  /\ UNCHANGED <<shown, forwarded, unlinks, deviceVars, restarts>>

(* The pairing a request names, and whose key opens it. *)
opened(n) == {p \in pairings : p.id = requests[n].pairing.id /\ p.key = requests[n].secret}

\* Mutant: an unpair is answered and not saved.
UnpairsInMemory(n) ==
  /\ requests[n].call # "pair"
  /\ \E p \in opened(n) :
       \/ /\ p.unlinked
          /\ Reply(n, "unlinked", p.id)
          /\ UNCHANGED <<pairings, forwarded>>
       \/ /\ ~p.unlinked /\ requests[n].call = "unpair"
          /\ pairings' = pairings \ {p}
          /\ Reply(n, "unpaired", p.id)
          /\ UNCHANGED forwarded
       \/ /\ ~p.unlinked /\ requests[n].call = "sync"
          /\ forwarded' = forwarded \cup {n}
          /\ UNCHANGED <<pairings, replies>>
  /\ UNCHANGED <<shown, code, saved, unlinks, forgotten, deviceVars, restarts>>

(* A pull is marked on the pairing; a push or a read is not. *)
handle(n) ==
  /\ requests[n].call # "pair"
  /\ \E p \in opened(n) :
       \/ /\ p.unlinked
          /\ Reply(n, "unlinked", p.id)
          /\ UNCHANGED <<pairings, saved, forgotten, forwarded>>
       \/ /\ ~p.unlinked /\ requests[n].call = "unpair"
          /\ changed(pairings \ {p})
          /\ Reply(n, "unpaired", p.id)
          /\ UNCHANGED forwarded
       \/ /\ ~p.unlinked /\ requests[n].call = "sync"
          /\ changed(pairings) \/ UNCHANGED <<pairings, saved, forgotten>>
          /\ forwarded' = forwarded \cup {n}
          /\ UNCHANGED replies
  /\ UNCHANGED <<shown, code, unlinks, deviceVars, restarts>>

forward(n) ==
  /\ n \in forwarded
  /\ forwarded' = forwarded \ {n}
  /\ Reply(n, "answered", 0)
  /\ UNCHANGED <<shown, code, pairings, saved, unlinks, forgotten, deviceVars, restarts>>

\* Mutant: whatever opens with the secret is taken for the reply.
OpensAnyReply(d, reply) == reply.secret = requests[asking[d]].secret

(* A reply reaches a waiting device: the hub's to this call or to another, or anything else. *)
openResponse(d, reply) == reply.call = asking[d] /\ reply.secret = requests[asking[d]].secret

Hear(d, as) ==
  /\ asking' = [asking EXCEPT ![d] = 0]
  /\ told' = [told EXCEPT ![d] = [call |-> requests[asking[d]].call, pairing |-> requests[asking[d]].pairing, as |-> as]]
  /\ UNCHANGED <<hubVars, requests, partings, replies, restarts>>

Heard(d, reply) ==
  /\ asking[d] # 0 /\ openResponse(d, reply)
  /\ Hear(d, reply.status)
  /\ paired' = CASE reply.status = "paired" -> [paired EXCEPT ![d] = [id |-> reply.id, key |-> SharedSecret(asking[d], reply.id)]]
                 [] reply.status \in {"unpaired", "unlinked"} -> [paired EXCEPT ![d] = NoPairing]
                 [] OTHER -> paired

(* Nothing comes, or what comes is not the hub's to this call: SyncPairingError, SyncSealError. *)
Unheard(d) ==
  /\ asking[d] # 0
  /\ Hear(d, "not the hub")
  /\ UNCHANGED paired

PairingNext ==
  \/ openCode \/ closeCode \/ Restart
  \/ \E p \in pairings : unlink(p) \/ Lapse(p)
  \/ \E d \in Phone : pair(d) \/ post(d) \/ unpair(d) \/ Unheard(d) \/ \E reply \in replies : Heard(d, reply)
  \/ \E n \in DOMAIN requests : enrol(n) \/ handle(n) \/ forward(n)

PairingSpec == PairingInit /\ [][PairingNext]_pairingVars

(***************************************************************************)
(* Properties                                                              *)
(***************************************************************************)

(* A device and the hub hold the same key for the pairing they agree on, it *)
(* came of that device's own call, and no other device has it; a code pairs *)
(* one device at most, however often its request arrives. pairing.ts.       *)
SharedKey ==
  /\ \A d \in Phone : paired[d] # NoPairing =>
       /\ requests[paired[d].key.device].by = d
       /\ \A p \in pairings : p.id = paired[d].id => p.key = paired[d].key
       /\ \A e \in Phone \ {d} : paired[e].id # paired[d].id
  /\ \A p, q \in pairings : p.from = q.from => p = q

(* A device's pairing stays known to the hub, through restarts and whatever *)
(* else arrives, until the device asked to end it, or the hub's user ended  *)
(* it and its time is over: until then a device is answered, be it to say   *)
(* that it was unlinked.                                                    *)
StaysKnown ==
  \A d \in Phone : paired[d] # NoPairing =>
    paired[d].id \in {p.id : p \in pairings} \cup partings \cup forgotten

(* A pairing is one key that two sides share and neither forgets by itself. *)
PairingKept == SharedKey /\ StaysKnown

(* What a device is told is so: unlinked only if the hub's user unlinked this *)
(* pairing, and an unpair that succeeded leaves none that is answered.        *)
ToldTheTruth ==
  \A d \in Phone :
    /\ told[d].as = "unlinked" => told[d].pairing.id \in unlinks
    /\ told[d].call = "unpair" /\ told[d].as \in {"unpaired", "unlinked"} =>
         \A p \in pairings : p.id = told[d].pairing.id => p.unlinked
=============================================================================
