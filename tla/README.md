# Verification of crypto_standalone

TLA+ models of the library under `src/src/crypto_standalone`, the runs of TLC
that check them on small instances, and theorems that TLAPS proves for every
value of the constants. Paths below are relative to that directory, those of
documents and tests to the repository.

To check a run or a proof, in this directory:

    tlc -workers 2 -config transport_streams.cfg MCTransport
    tlapm TransportCodec_proofs.tla

`PROJECT.json` lists components, runs, the faults that each property is known to
catch (operators with a comment `Fault:`), the source lines of each definition,
hazards, findings and theorems.

## 1. Inventory

The library is pure Python without dependencies. Most of it is functions without
state; what keeps state is the MTProto stack, the random number generator and
the entropy collector. Nothing is asynchronous: the application calls, and the
only threads are those of the application and the jitter workers.

| Component | State | Operations | Hard behaviour | Correct when |
|---|---|---|---|---|
| Transport codecs, `mtproto/transports.py` | `_buffer`, `_offset`, `_sent_header`, sequence numbers | `encode`, `connection_header`, `feed_data`, `feed_eof`, `reset` | a stream cut anywhere; exceptions in mid-call; overlapping ranges of headers; limits | frames come out whole, once, in order; nothing is held back; the buffer stays bounded |
| Session, `mtproto/session.py` | last time, replay cache; `MTProtoSessionState` | `generate_msg_id`, `validate_msg_id`, `add_seen_message` | clocks that stand or go back, replay, eviction, restart | ids grow; no id is accepted twice; eviction takes the oldest |
| Envelope, `mtproto/envelope.py` | none of its own, calls the session | encode and decode, encrypted or not | order of the gates, lengths and padding | what the peer made is taken, nothing else is |
| Containers, `mtproto/containers.py` | none | encode, decode | nested lengths, limits | nothing but an encoding is decoded, to what was encoded |
| Shared generator, `utils/random.py` and `DigitalURandom` | `_rng`, `_rng_lock`, `_lock`, `_generated` | `urandom`, `random_below`, `random_bits` | threads, double-checked initialisation, failures under a lock | one generator, no output twice, no lock left held |
| HMAC_DRBG, `utils/drbg.py` | key, `_v`, `_reseed_counter` | instantiate, `reseed`, `random_bytes` | additional input, the reseed interval | state contains every input, and never what was returned |
| Entropy collector, `utils/digital_entropy.py` | pool, hardware count, threads | one `collect_...` per source, the constructor | devices that fail or answer in part, threads that outlive their collection | every source is mixed in, hardware bytes are counted once, strict mode refuses |
| RSA, `asymmetric/rsa.py` | the key pair | key generation, encryption, signatures | probabilistic tests, CRT, paddings, lengths | decryption inverts encryption, primes are primes |
| AES and its modes, `symmetric/aes.py`, `aes_ige.py`, `aes_gcm.py` | key schedule; counters and chaining values in a call | blocks, CBC, CTR, IGE, GCM, blobs | last piece, counters, order of checks | decryption inverts encryption, nothing is decrypted unauthenticated |
| ChaCha20-Poly1305, `symmetric/chacha20.py` | counter in a call | `encrypt`, `decrypt`, blobs | as GCM | as GCM |
| Other ciphers: TEA, RED PIKE, AveMaria, legacy | key | `encrypt`, `decrypt` | word arithmetic | inverse to each other |
| Hashes, `hashing/` | chaining value, sponge | SHA-1, SHA-2, SHA-3, SHAKE, HMAC | padding at the boundaries, output of any length | the standards' blocks |
| HKDF, PBKDF2, `kdf/` | counters in a call | derivation | block counters, lengths | as many bytes as asked for, none given out twice |
| Curves, `asymmetric/nist_curves.py`, `ed25519.py`, `x25519.py` | none | point arithmetic, ECDSA, ECDH, EdDSA | special cases of the addition | group law; signatures verify |
| SigV4, `aws/sigv4.py` | none | `sign` | canonical order | not modelled (section 6) |
| Secret buffers, `utils/memory.py` | a buffer | overwrite on exit | none | not modelled |
| Validation TUI, facades, limits | none of interest | menus, re-exports | none | not modelled |

**How they interact.** An application feeds bytes to a codec, passes the payloads
it returns to `decode_encrypted_message`, which calls AES-IGE, SHA-256 and
`validate_msg_id`; `generate_msg_id`, `encode_encrypted_message` and `encode` are
the way back. RSA, and whoever wants randomness, calls `utils.random`, which
makes one `DigitalURandom` on first use: its constructor runs the collector,
extracts a seed and instantiates the DRBG. Those calls are synchronous. State is
shared between threads in the generator alone.

`mtproto/transports/` is a package of stubs that shadows the module
`mtproto/transports.py` of the same name. The model is of the module.

## 2. Modules

| Module | Models | Used by |
|---|---|---|
| `TransportFormats` | what each framing writes and parses, as functions | `TransportCodec` |
| `TransportCodec` | one codec between a peer and an application | `MCTransport`, `TransportCodec_proofs` |
| `FrameChannel` | abstract: a FIFO channel of frames | `TransportCodec`, by `INSTANCE` |
| `MTProtoSession` | two endpoints, their session state and envelopes, a network | `MTProtoCalls` |
| `MessageFormats` | containers, unencrypted messages, the ids seen by `MTProtoSessionState` | `MTProtoCalls` |
| `MTProtoCalls` | either of the two above | `MCSession`, `MTProtoCalls_proofs` |
| `RngService` | threads, `_get_rng`, `urandom`, the DRBG's requests | `MCRng`, `RngService_proofs` |
| `SerialRng` | abstract: a generator that serves one request at a time | `RngService`, by `INSTANCE` |
| `EntropyCollector` | the construction of a `DigitalURandom` | `MCCollector`, `EntropyCollector_proofs` |
| `ByteStrings` | `to_bytes`, `from_bytes`, xor | most modules below |
| `Primality` | `_is_probable_prime`, loop by loop | `RsaKeys` |
| `RsaKeys` | key generation around `Primality`, and every use of a key | `MCRsa` |
| `BlockModes` | CBC, CTR, IGE, GCM, ChaCha20-Poly1305 | `SymmetricCalls` |
| `BlockCiphers` | AES, TEA, RED PIKE | `SymmetricCalls` |
| `SymmetricCalls` | either of the two above | `MCModes`, `SymmetricCalls_proofs` |
| `Digests` | SHA-1, SHA-2, SHA-3, SHAKE, HMAC | `Derivations` |
| `Derivations` | HKDF, PBKDF2 and HMAC_DRBG, each on the HMAC of `Digests` | `MCDigests`, `Derivations_proofs`, `Freshness_proofs` |
| `CurveArithmetic` | points, scalars and their encodings, as functions | `CurveKeys` |
| `CurveKeys` | ECDSA, ECDH, Ed25519, X25519 | `MCCurves` |
| `Recursion_proofs` | no code: what proofs need of recursive definitions, division and digits | `MTProtoCalls_proofs`, `SymmetricCalls_proofs`, `Derivations_proofs` |

The `MC...` modules give constants that a `.cfg` cannot hold; `MCBytes` is what
several of them share. `SymmetricCalls` and `MTProtoCalls` start one of two parts
and leave the other alone: they share no state in the code either. Each `VARIABLES`
entry carries the source's name for it; a few are history and are marked so by
their comment (`dropped`, `headers`, `accepted`, `served`, `given`, `used`, ...).

**TransportCodec.** The stream is a sequence of positions, and a frame is its
place in it; `TransportFormats` abstracts four bytes to what the parsers test of
them (`Header`). One call of `feed_data` is `FeedData`, any number of
`ParseEvent`, then `CompactReturn`, `CompactOverflow`, `ParseRaise` or
`ParseRaiseReset`: an exception leaves the object between two steps, with what
was parsed before lost (`dropped`). A server may send frames that the code
misreads, and a codec that has lost its place reads from the middle of a frame
(`Inner`).

**MTProtoSession.** A message is its header fields and lengths; `intact` says that
what is under its `msg_key` is what was encrypted, which stands for SHA-256 and
AES-IGE. `Send` is `generate_msg_id` and `encode_encrypted_message`. `Accept` and
`Reject` are one call of `decode_encrypted_message` with all its gates, the last
being `validate_msg_id`. The network is a set that only grows: loss is not being
read, repetition is being read twice, reordering needs nothing. The float of
`time.time` has a resolution of 2^-22 s, 1024 units of an id, and it is this
resolution that keeps ids apart. The model counts in such grains.

**MessageFormats.** Data is a sequence of four-byte words and up to three odd bytes,
since every length in these formats is tested modulo four. Encoders and decoders
go word by word and message by message, one step per message, each with its
limits and its exceptions. In between, one word may change, data may be cut
anywhere or be followed by something. `add_seen_message` is called with any ids in
any order.

**RngService.** One action per step that another thread can see between: the check
of `_rng` outside and inside the lock, the construction, the acquisition of
`_lock`, every `_update` and `_v` of the DRBG, the read and the write of
`_generated` outside the lock. HMAC is a function that never gives a value
twice: `_key` and `_v` are numbers of updates.

**EntropyCollector.** The pool is the list of what was mixed in, with its source and
its length. One action per source, and for the TPM one per answer. The hardware
random device and the TPM may be absent, fail on opening, answer in part or break off.

**Primality, RsaKeys.** Numbers are numbers; each iteration of each loop of the
primality test is a step. `RsaKeys` runs that test on every number drawn, then
makes the key or draws both primes again, then uses the key once. Byte widths,
hash lengths and paddings are constants. `SmallPrimes` is defined by what it
contains: the table of the source is the primes up to 7919 without 2753 and 2837,
which does no harm to the test.

**BlockModes.** A message is the sequence of the pieces that the loops cut it into.
The block cipher is any permutation, and the block function of ChaCha20 any
function. A tag is what it is computed from: two are equal when their inputs
are. The receiver gets the ciphertext with a piece changed or cut off, or other
additional data. With `blob`, nonce, text and tag travel in one string, which
`decrypt_blob` cuts at the places it assumes.

**BlockCiphers.** A block of AES is its sixteen cells; sizes of keys, the number of
rounds and the key schedule are those of the code, and the bytes are elements of
any field of characteristic two, here of four elements. The definitions of rounds and schedule, with the S-box and the
polynomial of the source, give the ciphertexts of the source. TEA and RED PIKE
have words of any width and any number of rounds. Encryption leaves a trail of states (history), and
decryption is compared with it round by round.

**Digests, Derivations.** Data is bytes, cut into blocks and words as the code does
it. Compression function and permutation are ideal: a state is the list of blocks that led
to it, and the bytes of a digest are numbers above those of bytes, given out
once for each list (`known`). So a digest can be hashed again, cut, or put between other
bytes, and one can still tell what went into it. The xor of PBKDF2's iterations
is the set of what occurs an odd number of times. `Derivations` does not call an ideal HMAC:
each MAC is computed by the steps of `Digests`. The calls of one `_update` or
`random_bytes` wait in `todo`.

**CurveArithmetic, CurveKeys.** Addition, doubling, double-and-add, the ladder,
compression and DER are translated with their special cases, for any prime and
coefficients. Hashes are ideal, and so the nonces of RFC 6979 and RFC 8032, which
the code derives from them, may be any number in their range. A key pair signs, the
signature is damaged in any byte, cut or made up, and is verified; or two parties
agree on a secret; or points are added and multiplied alone.

## 3. Runs

All run to the end in about a minute or less on two cores. Bounds are
named constants.

| Run | Question | Instance | Why it is enough |
|---|---|---|---|
| `transport_streams` | Is the codec safe on any stream? | four framings, two frames of 0 to 12 payload bytes or of a server, damaged or lost, chunks of 1, 4 and 13 bytes, one reset, two retained limits | a chunk can end inside a header, at its end, inside a frame, after two; the limit is met and not met |
| `transport_channel` | Does a codec implement a FIFO channel, and end each call? | three frames that parsers can tell apart | three chunk sizes, several frames per chunk and several chunks per frame |
| `transport_oversized` | Is the buffer bounded as documented? | a frame over the limit | finding |
| `session_channel` | Ids, replay, origin, gates; formats; seen ids | two messages, one foreign or damaged, two-second clocks, cache of two, one restart; containers of up to three messages where two are allowed; six ids, of five, at limits of 1 to 4 | each gate of the decoders is hit by a shape of its own; the cache overflows at the third acceptance; seen ids are evicted twice |
| `session_replay` | Is a replay always refused? | a cache of two and three messages | finding |
| `rng_threads` | Locks, one generator, fresh output, refinement, progress | two threads, two calls each, lengths 0 to 3 with a limit of 2, interval of 3, one failure | the fourth call meets the interval, served or refused by either thread, the longest request is refused, either thread can fail in the middle |
| `entropy_collector` | Accounting, strict mode, all sources, ends | two device files each, three bytes a device and four required, two workers, four configurations, all with some samples | neither device is enough alone; every place where an exchange may break off |
| `rsa_keys` | Key generation, every use of the key, the test alone | seven-bit primes, moduli of 13 and 14 bits in seven two-bit bytes, texts of 0 to 4 bytes with leading zeros and ones; the test on everything up to 900 and on the strong pseudoprimes to base 2 below 16000 with a short table of primes | 13 bits make PSS blocks shorter than the modulus, 14 do not; an exponent of 9 reaches the exception of `_invmod`; the loops of both tests run as often as with the large table |
| `block_modes` | Inversion, damage, key stream, authenticity; inversion of the ciphers | blocks of two two-bit bytes, messages up to two and a half blocks, four kinds of additional data, nonces of one to three bytes where one is usual; keys of every size and of none that is allowed, up to three rounds of TEA | the last piece is empty, partial and whole; boundaries between nonce, data and text move |
| `digests` | Which blocks are hashed, what comes out, what a state contains | blocks of 12 and 18 bytes of four bits, every length up to three blocks and those where the length field needs another byte; keys around a block; output up to and over the limits; three calls of a generator with an interval of 1 | every length modulo the block occurs, with data that ends like padding does; counters reach their last value; the interval is met with and without a reseed before it |
| `digest_padding` | Is the padding the standard's? | the same | finding |
| `curves` | Group law, multiplication, signatures, secrets | two curves of 17 points over the fields of 11 and 23 elements, an Edwards curve and a Montgomery curve of 56 points over that of 61; all pairs of points and several third ones, all nonces | coordinates wrap round the order on one curve; points of every order dividing 56, and u on the twist, occur |

`CHECK_DEADLOCK FALSE` is given where each behaviour is one call, or a bounded number of
calls, that ends: the runs of `MCCollector`, `MCRsa`, `MCModes`, `MCDigests` and
`MCCurves`. Elsewhere deadlock is checked.

What the properties say is in the comments before them. The ones to know:

- **Transport**: `FramesInOrder` (events are frames, one for one, however the stream
  is cut and whatever calls raise), `NothingHeldBack`, `OneFrameRetained`,
  `MarkerOnce`, `FullStrict`, and the refinement `ImplementsChannel`.
- **Session**: `AtMostOnce`, `FromThePeer`, `OnlyAcceptedIdsBurn`, `GenuineTaken`
  (encoder and decoder agree), `IdsIncrease`, `IdsNearClock`; `FormatsExact` (nothing
  but an encoding is decoded, whatever happened on the way); `SeenRecent` (an id is
  forgotten only for larger ones).
- **Generator**: `FreshBlocks`, `OneGenerator`, `EveryCallEnds`, `IntervalExact` (requests are
  refused for the interval exactly when it is used up), and the refinement
  `ImplementsSerialRng`.
- **Collector**: `HardwareAccounted` (with what strict mode refuses),
  `EverySourceMixed`, `EverythingEnds`.
- **RSA**: `ChainIsLucas` (the chain against powers in the quadratic extension,
  computed by other formulas; also the doublings, up to the first wrong power of Q),
  `AnswersRight` (no composite passes, and a prime is lost only from that doubling on), `RsaRoundTrip`, `VerifyAnswers`.
- **Symmetric**: `RoundTrip`, `DamageContained`, `KeyStreamFresh`,
  `AuthenticBeforeDecrypt`, `RoundsUndone`.
- **Hashes**: `StandardButAtBoundary` (exactly where the blocks are the standard's),
  `PaddingUndone`, `MacOpens` (other arguments, other MAC), `DerivedFresh`,
  `InputsInState` (a state contains each input since its seeding, twice, and
  nothing older), `OutputNotState`.
- **Curves**: `GroupLaw`, `LoopsMultiply` (against repeated addition; the two sides of
  a key agreement agree), `AcceptsExactly` (what is signed verifies, and nothing but what a search of
  the whole curve finds).

**Fairness.** `TransportCodec`: the loop of `feed_data` is sequential code that runs on,
and the socket goes on delivering what is in flight; nothing is assumed of the
peer, or of when the application resets. `RngService`: a thread inside a call is
scheduled, and gets a lock that nobody else goes on to take. `threading.Lock`
gives no order of waiters, but calls are finitely many. No thread has to make a call.
`EntropyCollector`: constructor and workers are scheduled, and device reads come
back, in the code by their timeouts. Safety needs no fairness.

## 4. Findings

- `transport_oversized`: after the header of a frame that is too long, `feed_data`
  raises before `_compact`: each further call adds its chunk to the buffer and
  raises again. `docs/MTPROTO.md` promises bounded buffers.
- `session_replay`: eviction keeps an arbitrary half of the replay cache, so an id
  inside the time window can be forgotten and its message accepted again.
- `digest_padding`: the number of zeros is computed one byte short, so that hashes differ
  from the standard's at one length in each block (55 modulo 64, 111 modulo 128; for
  SHA-3 one below the rate), and for long data. `StandardButAtBoundary` says
  where they do not.

Remarks that no run reports:

- An abridged quick ack that starts with 0xff is parsed as the header of a long payload
  (`transports.py:143`).
- `encode` of no codec checks the limit that its own decoder enforces, and the quick
  ack request of an outgoing frame is not understood by the same class.
- With a transport that leaves padding behind a message (`Trails = {0, 4}` in
  `session_channel.cfg`), `GenuineTaken` fails: the padding of the padded
  transport reaches `decode_encrypted_message`, which wants whole blocks.
- The decoder of containers does not check `max_container_size`; that of unencrypted
  messages ignores what is behind the body. Containers have a sequence number of
  eight bytes.
- `add_seen_message` with `max_entries` of 1 keeps everything, since `sorted_msgs[-0:]` is
  the whole list; `SeenRecent` is about two entries or more.
- With the software sources switched off and no device that answers, a `DigitalURandom` is made
  from the state of the runtime alone. `docs/RANDO.md:193` speaks of a `RuntimeError` if no entropy sources
  are available; only `strict_hardware` raises one (`StrictRefuses`).
- If `t.start()` fails in `collect_thread_jitter`, the threads already started are
  never told to stop.
- `_reseed` of the DRBG sets key and `_v` to their constants first, so that nothing of the
  old state remains; `random_bytes` mixes in its additional input before it looks at the interval.
- In the doublings of the strong Lucas test, `d` is doubled and multiplied by `2 ** _` too
  (`rsa.py:259`). So doubling `i`, from 0 on, takes Q^(d0 4^i) where Q^(d0 2^i) is needed: the second is
  already wrong. For 151, V_76 = 0 should end the second doubling, but 2 * 3^76 is subtracted for
  2 * 3^38. Some 6% of primes are refused, all of them 7 modulo 8, 8111 first above the table. Key
  generation only draws again. `AnswersRight` says that no other prime is lost, and that no
  composite of those tested gains.
- `verify_pss` raises, instead of returning `False`, for some damaged signatures
  under a modulus of 8k + 1 bits (`VerifyAnswers` states exactly this).
- For a GCM nonce that is not 12 bytes long, the hash that makes J0 gets one length
  block too many (`aes_gcm.py:108`): encryption and decryption agree with each other
  (`RoundTrip`), but not with SP 800-38D. `decrypt_blob` assumes 12 bytes where
  `encrypt_blob` takes any; the tag refuses the result (`AuthenticBeforeDecrypt`).
- X25519 does not mask the top bit of u (`x25519.py:38`), which RFC 7748, section 5, has ignored: `LoopsMultiply`
  takes u as the code does. The last swap of its ladder never happens, the lowest bit of a scalar being 0.
- `_point_decompress` returns points that are not on the curve: `ed25519_verify` accepts none of
  those. It also takes y that is not reduced and either sign of x = 0, which the decoding of RFC 8032
  refuses; and `_decode_signature` takes DER that is not strict. Such encodings are accepted if they solve
  the equation (`AcceptsExactly` says which).
- A source of jitter that is configured for no samples at all mixes in nothing, without an error;
  `EverySourceMixed` is about the others.
- The replay cache is in memory only: a `SessionValidationState` made anew for the same session
  accepts again what is inside the window. `AtMostOnce` is about one that lives.
- Candidates for the nonce of P-384 have 256 bits only, and a hash longer than the order
  raises an `OverflowError` in `sign`.
- `chacha20_encrypt` counts modulo 2^32 blocks and refuses no longer message, whose key stream
  repeats; neither does `_gctr` (`KeyStreamAlwaysFresh` is about shorter ones).
- `kdf/hkdf.py` and `kdf/pbkdf2.py` are the same file twice.

## 5. Theorems

Forty theorems, in seven modules, all listed in `PROJECT.json`; those that state a property of a run name
it there. They hold for every value of the constants that satisfies the
`ASSUME` of the module: any number of threads, any lengths, limits, clocks and
bounds. Each has the same shape: an invariant strong enough to be kept by each action,
one step of the proof per action, and a last step in temporal logic. An eighth module,
`Recursion_proofs`, holds the lemmas on recursion that three of them share.

Where a theorem has a hypothesis, `Spec => [](Hypothesis => Property)`, it is on the lengths of the
one call in question, and its comment says what the code does otherwise. Where the property is about a
history of calls, the hypothesis is about all of it, `Spec => ([]Hypothesis => []Property)`: `LengthsFit`
in `DerivationsAlwaysFresh`, `AllFit` in the two theorems on the generator (every length in bits that
was hashed fits into its field; `to_bytes` raises an `OverflowError` otherwise), `Untroubled` in
`CodecIsChannel` (see below).

**Transport** (`TransportCodec_proofs`). `TypeCorrect` includes `Pos <= hi <= sent`: an
event never takes more than has arrived (`ParseTakes`). `Laid` says that frames lie end to
end and that the header found at the start of a frame is that of the frame. With it,
`FramesInOrder` is inductive, split into its condition `Calm` and its conclusion
`InOrder`: `Calm` refers to the frames before the read offset, so every step must
show that it held before, too. `NothingEverHeldBack` needs `IdleInv` (between calls
the parser stands where the last `_parse_one` returned nothing or raised) and that a
plain frame that is there whole is always parsed. `OneFrameAlwaysRetained` and
`AlwaysMarkerOnce` follow from what a parser can wait for (`ParseWaits`). `FullAlwaysStrict`
is inductive as `SoundInv`, over returned and pending events together. `CodecIsChannel` is the
refinement of `FrameChannel` without its fairness. `Untroubled` says that each frame read is plain, no byte
was thrown away unparsed and no call raised with events in hand. Then a frame sent (`Peer`) maps to `Write`,
a call that returns events (`CompactReturn`) to `Receive`, and every other step to a stutter.

**Session** (`MTProtoCalls_proofs`). `ReplayInv` adds to `AtMostOnce` that an endpoint that
has not restarted or overflowed remembers all it accepted: without it nothing would tell that
a repeated id meets the cache. `IdInv` ties `_last_time` to the last id and the peak of the
clock. `OriginInv` extends `FromThePeer` to what is in the network. `GenuineAlwaysTaken`
holds under the hypothesis that no transport leaves padding behind a message
(`Trails = {0}`). It rests on the arithmetic of padding (`PaddingFits`). These theorems are
about `Spec` of the session; `CallsKeepSession` carries them over to `CallsSpec`, which the runs check.

**Formats** (`MTProtoCalls_proofs`). `FormatsAlwaysExact`: for any messages, containers of any
length and any change on the way. The invariant, `FormatsInv`, follows the loop of the decoder: while it
runs (`Decoding`), the data up to `offset` is the header and exactly what the messages
found so far encode to (`Follows`), the count in the header is theirs and what is left to do, and if the data
is as it was encoded, what was found is a beginning of what was put in. At the end of the loop nothing may be left over, so that
the data is the encoding. For this `ContainerOf`, a concatenation over all messages, has to be taken
apart message by message.

**Seen ids** (`MTProtoCalls_proofs`). `SeenAlwaysRecent` rests on what the expression
`sorted_msgs[-(max_entries // 2):]` keeps of a set: ranks in a finite set of numbers
are different, so a half is as large as it should be, and everything that was
forgotten before is below what is kept now.

**Generator** (`RngService_proofs`). `LockInv` is types, locks and the single generator
together: none of the three is inductive alone, because the second check of `_rng`
is only safe under the lock. `OutputInv` adds what each thread's unfinished block contains,
and that keys of results differ; it gives `FreshBlocks`, and the refinement
`RngIsSerial`: `Finish` maps to a request, every other step to a stutter. `Counted` relates the reseed counter to the results:
a thread in the loop has been let through, so that one more is within the interval. `IntervalAlwaysExact` follows,
since the thread that looks at the counter has the generator for itself.

**Collector** (`EntropyCollector_proofs`). `IInv` is types and three parts that only hold
together. `Accounts`: what a device has given is in the pool once, and the bytes of an exchange
that goes on or has failed are not. `Stages`: what has been read and counted at each point of the constructor.
`OneOfTwo`: of the two device files of a kind, only one has given anything.
`EverySourceAlwaysMixed` adds an invariant of its own about the other sources (`MixInv`).

**Ciphers** (`SymmetricCalls_proofs`). `RoundsAlwaysUndone`: any S-box that is a permutation, any
key schedule, any number of rounds, any xor that undoes itself. Decryption stands in the
middle of a round of AES when its loop comes round, where a state of the trail is shuffled but not
yet substituted. That the two matrices of MixColumns are inverse to each other is an
assumption on the constants (`MixAssumption`), which TLC evaluates for every column of the
small field: it is what `Poly` has to satisfy.

**Modes** (`SymmetricCalls_proofs`). `RoundTripAlways`: what arrives as it was sent is decrypted
to the message, for any permutation, key stream, block length and message. `ModesInv` has
two halves. `Sending` says what the ciphertext made so far is, as a function of
the chaining values or the inputs of the key stream, and that the padding makes whole
blocks of any message. `Receiving` says that the receiver, at piece `i`, has the
chaining values that the sender had there, and has decrypted that much of
the padded message. `ChainGrows` and `ChainUndone`, `StreamGrows` and `StreamUndone` are the two
ends of one piece; `PadWhole` and `PadPartial` those of the last. What GCM makes of a
nonce of another length, a fold over its blocks, needs to be a block only. A blob is
one string of nonce, pieces and tag: it is cut again into the same pieces since a text has whole
pieces and at most one shorter one at its end (`CutAt`).

`KeyStreamAlwaysFresh` reads off `Sending` that counters are consecutive. In CTR the last bytes of
the input are the digits of the counter, and numbers with the same digits are a
multiple of the power of that many digits apart. In GCM they are added up byte by byte with a carry
(`Inc`): `CountsTo` says which number they are the digits of, and that `Inc` adds one. The mask
of the tag is the block before the first. `CountersSuffice` is the hypothesis: a message has no more
pieces than the counter has values.

`AlwaysAuthentic`: a tag tells what it was made from (`MacInputInjective`). Its input is a concatenation of
data, text, their zero padding and a block of two lengths; equal inputs have equal last blocks, hence
equal lengths, hence the parts begin and end at the same places. `LengthsFit` says that
the lengths fit into their fields; if they do not, `to_bytes(8, ...)` raises an `OverflowError`.

**Damage** (`SymmetricCalls_proofs`). `DamageAlwaysContained` needs a second invariant, about a receiver
of something else than what was sent. `Arrived`: it differs in one piece only, or lacks
the last. `Retraced`: each piece of the plaintext is the same function (`DecryptedAt`) of what has arrived
as the message is of what was sent (`SentIsDecrypted`), and right as long as all pieces up to it are. The
latter is part of the invariant because each piece of IGE depends on all before it. That the piece
itself is never right is injectivity: of xor, and of the block cipher.

**Hashes** (`Derivations_proofs`). The theorems are about `Spec` of `Derivations`, so
that they hold of every hash that HKDF, PBKDF2 and the generator ask for, whatever order they come
in. `DerivationInv` is `HashInv` and `StageTypes` (who is waiting for which hash, and
that what it hands over is bytes). The parts of `HashInv`:

- `Absorbing`: the state is `Made(i)`, the first blocks of the padded data; after the loop, all of them.
- `Knowing`: a digest is that of a state in `known`, at the place that its bytes tell.
- `MacStages`: which data each of the two or three hashes of `hmac_...()` has, in terms of key and
  message, and that a short key is the key or a digest of it.

The padding of SHA-1 and SHA-2 is one byte short, and `int.from_bytes` of the last, short word acts as if
a zero was in front of that word. So the blocks are the words of one sequence of whole blocks (`Filled`), and joining them
gives it back (`CutJoined`, `JoinedBlocks`). `PaddingAlwaysUndone` takes that byte out again and reads
the length at the end or, for a sponge, looks for the domain byte, the last but one that is not zero.
`MacAlwaysOpens` does it twice, or three times. `StandardExceptAtBoundary` compares `Filled` with
the padding of the standard. If the standard has no zeros, the code has a block more (`ZerosMissing`). Otherwise it has one
zero less, and the length field begins one byte early: shifted so, it is the same exactly if the bytes
before its last word are zero (`ShiftedIs`), which says how large the length is (`LeadingZeros`). For
the output of a sponge, `Squeezed` says that the first `n` lanes are the first bytes, in order. The
hypotheses `LengthFits` and `LengthsFit` are that the length in bits fits into its field: for longer
data, `ml.to_bytes(8, "big")` raises an `OverflowError`.

**Derived keys** (`Freshness_proofs`). `DerivationsAlwaysFresh` uses that a MAC can be opened: two digests of
`known` that are MACs of one key are equal only if their messages are (`MacOpened`). What `hkdf_expand` hashes ends in the
number of the block, so its digests differ as long as the number fits into its byte (`HkdfInv`: each piece of
`okm` is the MAC of a message with its number at the end). In PBKDF2 each digest is the MAC of the one before it, and
the first that of a salt with the number of the block (`Pbkdf2Inv`). If a digest came back, so would have the one before it, down to the
salt, and a salt is bytes and no digest. So the digests of a block are all different, none of
them is cancelled by the xor, there are as many as iterations, and two blocks are never the xor
of the same ones. `DerivationAssumption` says what the arguments are for this: strings of bytes and natural numbers.

**HMAC_DRBG_SHA256** (`Freshness_proofs`). Both theorems rest on `Strung`: no digest is hashed before it is made, so
whatever led to the `j`-th consists of bytes and of digests before it, and a MAC is newer than its key and
its message (`Grounded`, `MacNames`). It is an invariant of every step of the derivations and of each hash in between.

- `OutputNeverInState`: `Handing` says that bytes handed out belong to digests no newer than `_v`, are distinct, and are
  never those of `_key`. They may be those of `_v` while a request goes on, and only if an
  HMAC for `_v` is still in `todo`; that it is, behind every output and after the check of the
  interval, is the order of the tasks of `random_bytes` (`OutOrder`). Without that last `_update` the property fails.
- `InputsAlwaysInState`: `Came` says that there is a chain from the first state to the present
  `_key` and `_v`, each link one HMAC for one of them. `Feeding` says that the inputs on that chain, with those
  still in `todo`, are what was fed; those behind the check count only if the interval is not over
  (`Due`). `Inputs` opens HMACs from the last one backwards, and has to decide each time which of the two was made
  last. It tries `_v` first: it is right since no `_v` that is older than the key can contain it
  (`KeyUnmade`), and it never opens the first state (`FirstUnmade`). It makes as many turns as
  digests are known; the chain is no longer than that (`ChainBound`).

**Recursion** (`Recursion_proofs`). The theorems on induction in the library take an operator as
a parameter, which none of the provers here can instantiate. `Induction` states the same for a set of numbers, by the
well-founded order below. `RecursiveFunction`: a first value and a function for the steps, both given as
values, define a function; a definition by recursion chooses this one. From it come powers and digits
(`DigitsValue`: a number is read from its digits), folds over sequences and `FlattenSeq`
(`FlattenNext`, `FlattenInjective`: concatenations of pieces of the same lengths are equal only if the pieces are).
That is how the theorems above speak of definitions that are recursive.

**Checked by TLC only.**

- Liveness (`EveryCallEnds`, `EverythingEnds`) and the fairness in the refinement `ImplementsChannel`, of which
  `CodecIsChannel` is the rest: fairness and ENABLED are outside of the prover.
- `Primality.ChainIsLucas` and `AnswersRight`, `RsaKeys.RsaRoundTrip` and `VerifyAnswers`, and the three
  properties of `CurveKeys`: number theory of primes, of powers in an extension and of points of a curve, of which the provers have no
  library. That an addition stays on the curve is already an identity of rational functions of four variables.

## 6. Not modelled

- Compression functions and permutations of hashes, the quarter rounds of ChaCha20, the
  multiplications of Poly1305 and GHASH: arithmetic on words without control of
  interest; an ideal or an arbitrary function stands for them. A curve over a
  field of 255 bits and a permutation of 128 are out of the reach of enumeration: the definitions
  are those of the code, the fields are small.
- What the entropy sources measure, the debiasing of jitter, the health check that
  picks a label only, `self_test`.
- `random_below` and `random_bits`: what they make of the bytes of one `urandom` call is arithmetic on
  a local value; where they are used, any number in the range is drawn.
- SigV4 (`aws/sigv4.py`): one pass that formats strings, without state, branches or loops
  of interest. Whether the result is right is a matter of the rules of an
  external service, which nothing in the repository states.
- AveMaria (`symmetric/avemaria.py`): a table of words for letters. Text that contains "<"
  does not come back.
- Secret buffers: what `utils/memory.py` promises is about the memory of the interpreter.
- `MTProtoLimits` (`mtproto/config.py`), which nothing uses; the empty files beside it.
- The TUI, the facades, tests and tools. Wording of errors, logging.
- `generate_msg_id` and `validate_msg_id` called by several threads on one object:
  the class has no lock and does not claim to be shared.

## 7. Plan

Done: transport, session, formats, generator, collector, primality and RSA, modes and
block ciphers, hashes and what is derived from them, curves. Left, in this order:

1. Codec and session in one model, with frames as messages: today the session assumes a
   transport that may lose, repeat and damage messages, which is weaker than what
   the codec gives, and the padding behind a message is a constant.
2. The signatures of `CurveKeys` and the keys of `RsaKeys`, given the laws of the group and of primes as assumptions.
3. The rejection loop of `random_below`, and the range of `random_bits`.
4. The clamping of Poly1305 and the bit order of GHASH, against polynomials
   over a small field.
