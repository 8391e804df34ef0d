# Verification of the simple router

The repository holds course material and one program: the simple router under
`src/simple-router-project`. This project models that program in TLA+, checks
the models with TLC and proves every safety property that TLC checks, and the
safety part of both refinements, with TLAPS. All paths below are relative to `src/simple-router-project`.

## The system

| Component | State | Operations | Interacts with |
|---|---|---|---|
| ARP cache and request queue (`router/sr_arpcache.c`, `.h`) | table of 100 entries (IP, MAC, time added, valid), list of pending requests, each with its packets, time and count of ARP requests sent; one recursive mutex | `lookup`, `queuereq`, `insert`, `sr_arpreq_destroy`, the sweeper thread `sr_arpcache_timeout` with `sweepreqs` and `handle_arpreq` | called by the packet handlers; the sweeper is a thread of its own and sends packets |
| Packet handlers (`router/sr_router.c`) | none of their own; they use routing table, interface list and cache | `sr_handlepacket` dispatches to ARP requests, ARP replies, echo, ICMP errors, forwarding | called by the VNS read loop, one packet at a time |
| Longest prefix match (`lpm_lookup`, and a copy in `send_icmp_host_unreachable`) | routing table, fixed after startup | lookup | handlers, sweeper |
| Checksums (`ip_checksum` in `sr_router.c`, `cksum` in `sr_utils.c`) | none | one's complement sum | handlers, sweeper |
| VNS client (`router/sr_vns_comm.c`) | TCP socket, receive buffer, interface list | connect, authenticate, hardware info, read loop, `sr_send_packet` | POX modules over TCP, handlers |
| Startup (`router/sr_main.c`, `sr_rt.c`, `sr_if.c`) | routing table, interface list | load and verify the table, start threads | VNS client |
| SHA-1 (`router/sha1.c`) | message block, index, length | reset, input, result | authentication of the VNS client |
| POX modules (`pox_module/cs144`) | connected routers, interface table, names of ports; two threads | broadcast packets one client at a time, answer clients, take the ports of a switch | VNS client, switch |
| Packet dump (`router/sr_dumper.c`) | the log file | write the header of a packet, then its data | both threads of the router, through `sr_log_packet` |
| Topology and scripts (`lab3.py`, shell scripts) | none that matters | starting hosts, ping, traceroute | - |

### What is hard here

* Two threads. The packet handlers run on the main thread, the sweeper on its
  own. Each call into the cache takes the mutex, but the callers join several
  calls without holding it: `forward_ip_packet` and `send_icmp_t3` look up,
  then queue, then read and write `req->times_sent` and `req->sent` of a
  request that the sweeper may count, give up and free meanwhile.
* Time. Retries, give-ups and expiry race with late ARP replies.
* Limits. The cache can be full; a host may announce several MAC addresses.
* Partial failure. When a request is given up, some senders can be told and
  others cannot.
* Octets. Messages are read from a socket in pieces of any size; both threads of
  the router write to that socket, and to the log file, without a lock.
* Startup. Packets, authentication and hardware info arrive on one stream in an
  order that the client takes for granted.

The hazards, each at its line, with the properties that would catch them, are
listed in `PROJECT.json`.

### What makes each component correct

* Cache and queue: every accepted packet is sent or given up exactly once; no
  request is leaked, freed twice or duplicated; a packet never waits for an
  address that is known; packets go only to an address claimed for their next
  hop; a request is given up only after the limit of ARP requests; entries
  expire; the threads do not deadlock.
* Handlers: each packet leads to at most one of forward, reply, error, drop; no
  ICMP error leaves without a route; a forwarded packet lost one unit of TTL;
  errors about errors come to an end.
* Longest prefix match: it returns the most specific matching route.
* Checksums: a header with its checksum in place sums to zero, on hosts of
  either byte order.
* VNS session: client and controller never wait for each other during the
  handshake, a ready router has a table that fits its interfaces, every packet
  sent names a port the controller knows, a router becomes ready or stops unless
  the controller loses its request; the
  interfaces are those of one announcement of the switch, each with its own
  addresses.
* Streams and log file: messages arrive whole, once and in order, however they
  are cut into reads and writes, as long as the writes of two threads do not
  overlap; a connection is given up only for a message that is too long or at
  its end.
* SHA-1: for every message length and every way to cut the message into calls,
  exactly the padded message is hashed, or failure is reported.

## Modules

| Module | What it is |
|---|---|
| `ArpCache` | the cache, its queue, both threads, and the code of `sr_router.c` that resolves next hops and handles ARP replies; all properties; the fault variants used to test the properties |
| `ArpResolution` | what the cache promises: packets for one next hop are answered or given up together, and an answered packet is sent |
| `ArpCacheProofs`, `ArpPacketProofs` | the theorems about `ArpCache`: threads, requests and counters; then packets and the refinement |
| `VnsSession` | router processes and the controller with its two threads: startup, handshake, hardware info, packets, end of the connection |
| `VnsSessionProofs` | the theorems about `VnsSession` |
| `VnsStream` | the octets below the messages of `VnsSession`: the reads of `sr_read_from_server_expect`, the writes of `sr_send_packet` by two threads, and the records of `sr_dump` |
| `Channel` | what the code above the socket takes a stream for: each message once and in order, until the channel breaks |
| `VnsStreamProofs` | the theorems about `VnsStream`, and that it implements `Channel` |
| `Router`, `RouterProofs` | every branch of the packet handlers in `sr_router.c`, and the retries, give-ups and expiry of the sweeper, over an abstract cache, and the theorems about them |
| `Lpm`, `LpmProofs` | the loop of `lpm_lookup`, one route per step, and the theorems about it |
| `Checksum`, `ChecksumProofs` | `ip_checksum` and `cksum` on hosts of both byte orders, against the test of the receiver, and the theorems about them |
| `Sha1`, `Sha1Proofs` | block, index, length words, padding and flags of `sha1.c`, and the theorems about them |
| `MC*` | the instances for TLC, and statements of the documentation that the code does not meet |

`ArpCache` and `Router` look at the same handlers twice: `ArpCache` splits their
accesses to the cache into steps and keeps nothing of a packet but its next
hop; `Router` keeps the packet and takes a handler as one step. Definitions
named `Faulty...` are variants with a plausible mistake; each shows that some
property would notice it, and no specification uses them.

### `ArpCache` and the code

| Model | Code |
|---|---|
| `entries[s]` (None: `valid` is 0), `age` | `cache->entries`, seconds since `added` |
| `requests` | the list `cache->requests` as a set |
| `cell`, `live` | heap cells for `struct sr_arpreq`, those allocated and not freed |
| `lock` | `cache->lock` when it is held over several steps |
| `mpc, mpkt, mreq, mmac, mlist` | the main thread's position and locals |
| `spc, todo, cur, nowAge, tmp` | the sweeper's position and locals; `tmp` is the register of `times_sent++` |
| `fate`, `asked` | history: what became of a packet, ARP requests sent for a request |

| Action | Code |
|---|---|
| `LookupHit`, `SendForwarded` | `sr_arpcache_lookup` finds an entry; its copy is used after the unlock |
| `LookupMiss`, `QueueNew`, `QueueOn` | no entry; `sr_arpcache_queuereq` makes a request or joins one |
| `ReadTimes`, `SendArpRequest`, `WriteSent`, `WriteTimes` | the four accesses to the request without the mutex in `forward_ip_packet` and `send_icmp_t3` |
| `InsertUnasked`, `InsertAnswer`, `SendQueued`, `DestroyAnswered` | `handle_arp_packet` on a reply |
| `SweepStart` ... `SweepEnd` | `sr_arpcache_timeout`, `sr_arpcache_sweepreqs`, `handle_arpreq` |
| `Tick` | one second of `time(NULL)` |

Abstractions, and why they lose nothing the properties tell apart:

* A critical section of the main thread is one step, since the sweeper only
  touches the cache with the mutex held and the section's other accesses are
  local. The sweeper's own critical section is split into its accesses, because
  the main thread writes requests without the mutex.
* Clock values are ages that saturate where the code's comparisons do (1 second
  for a request, one more than `SR_ARPCACHE_TO` for an entry).
* The request list is a set: the code searches it by IP, and the sweeper's walk
  saves the next pointer before it frees a request. `Visit` meets each request
  of the walk once, in any order.
* A read of a freed cell returns any value. A write to a freed cell changes
  nothing: only the main thread allocates, it does not between taking the
  pointer and its last write, and `calloc` clears the cell. Corruption of the
  allocator by such a write is outside the model; `NoUseAfterFree` shows that
  the access can happen.
* A packet is a number; its contents are its next hop and the next hop back to
  its source, both of which the routing table fixes.
* A route through an interface that does not exist cannot occur after
  `sr_verify_routing_table`, so the early returns for it are not taken.
* `sr_arpcache_queuereq` keeps its own copy of a packet; the leak of the
  caller's copy is visible in no state of the model.

### `VnsSession` and the code

| Model | Code |
|---|---|
| `pc[c]` | where process `c` is in `main` and `sr_connect_to_server`: `auth`, `status`, `rtable` are the calls of `sr_read_from_server_expect`, `run` the main loop; `spin` is the loop that reads 0 bytes for ever, `abort` a failed assertion |
| `opt[c]` | the options `-T` and `-r` it was started with |
| `table[c]` | `sr->routing_table`, the interface of each route |
| `ifs[c]` | `sr->if_list`: name, MAC and IP of each record |
| `down[c]`, `up[c]`, `link[c]` | the TCP connection |
| `srclients`, `interfaces`, `known` | the attributes `srclients`, `interfaces` and the keys of `intfname_to_port` of `SRServerListener` |
| `greeting` | the client between the two statements of `_handle_new_client` |
| `bcast` | the message and the position of the loop in `broadcast` |
| `unanswered` | history: clients that stay connected although their OPEN came before the switch or their OPEN_TEMPLATE found no handler |

| Action | Code |
|---|---|
| `Start`, `Connect`, `SetupFails` | `main` and `sr_connect_to_server` up to the first read |
| `Refuse`, `ReadAuthRequest`, `ReadAuthStatus`, `ReadRtable`, `ReadHwinfo`, `ReadPacket`, `ReadBanner`, `ReadClose`, `HandshakeFails`, `ReadEof`, `ReadError` | one call of `sr_read_from_server_expect` with its handler |
| `SendPacket`, `BrokenPipe` | `sr_send_packet` from either thread |
| `Accept`, `Greet`, `Handle...` | the reactor thread: `_handle_new_client`, `_handle_recv_msg` |
| `RouterInfo`, `PacketIn`, `BroadcastStep` | the POX thread: a switch connects, a frame arrives, one client of a broadcast is served |
| `TemplateServer` | external: a VNS server that knows templates answers OPEN_TEMPLATE, in place of the controller of the repository |

`_handle_new_client` is two steps because the POX thread can broadcast between
them; `broadcast` is one step per client because the reactor appends to the
list meanwhile. `HandleHwinfo` builds the interface list entry by entry as
`sr_handle_hwinfo` and `sr_if.c` do, from the entries that `VNSInterface.pack`
writes for a port. Abstractions:

* A message is sent and received whole; `VnsStream` has the octets.
* The content of a frame is left out, so `ReadPacket` and the frames the handlers
  and the sweeper send (`SendPacket`) are separate steps. A frame shorter than an
  ARP packet passes `sr_arp_req_not_for_us` without the assertion.
* The password, the salt and the hash are left out: `_handle_auth_reply` accepts
  every reply.
* With the controller of the repository a router started with `-T` never leaves
  `rtable` but by an error or the end of the connection: there is no
  `_handle_open_template_msg`. If the library keeps the connection the router waits
  for ever, which `unanswered` records. The client's code for VNS_RTABLE, VNSBANNER and
  VNSCLOSE is reached through `TemplateServer` only.
* A message above 10000 bytes (`LONG`) is a frame the switch passed on.
* `_handle_RouterInfo` is one step: the reactor reads `interfaces` and
  `intfname_to_port`, and the loop fills the map before it sets `interfaces`, so a
  name that a router has been sent is in the map.
* The controller is not restarted: a new controller is a new connection of a
  new process. What an ended process has not read is discarded.

### `VnsStream`, `Channel` and the code

`dir` says which of three streams a behaviour is about: `down`, `up` or `log`.
Octet `<<i, k>>` is the `k`-th of the `i`-th message, so a reader that loses its
place meets octets that do not belong together (`astray`: what it would take for
a length is then anything, and the model stops there).

| Model | Code |
|---|---|
| `buf` | octets in the connection, or in the file and not yet read |
| `rest[t]` | what thread `t` has still to write: of a `write` that waits for room, or the second `fwrite` of `sr_dump` |
| `reader`, `hdr`, `body` | the two loops of `sr_read_from_server_expect`, and `len`, `buf`, `bytes_read` |
| `delivered` | the messages that reached the switch statement |

The test for a negative length and a failed `malloc` (`sr_vns_comm.c:372`, `:379`)
are left out: a length is that of a message some sender wrote, and memory does
not run out.

The controller's end of `up` and whoever opens the log file read in the same
way: a length, then as many octets. The controller's library sends from a queue
of whole messages. `ImplementsChannel` is a refinement: the `n` messages
delivered are the first `n` sent, and delivery happens, until the channel
breaks. It breaks in three ways: the connection ends, the reader gives up, or
one thread starts to write in the middle of the other's message (`overlap`).
The last is what the missing lock costs: it needs a full socket, since the
kernel takes a write that fits in one step, but for the log file any two
records can do it. `VnsSession` relies on `Channel` for `down` and `up`.

### `Sha1` and the code

The variables are the fields of `SHA1Context`. The digest is a function of the
blocks processed since `SHA1Reset`; `hashed` is the sequence of their octets, so
two digests are the same in the model exactly when the same blocks were
processed. `SHA1Input` is one step per octet. `BlockSize` (64) and the values of an octet of the
length (256) are parameters; the place of the length and the limit 55 follow
from them. `Padded` is the definition of the standard. The values of an octet are
assumed to be even in number, so that a length word counts whole groups of 8 bits
and the low word can only wrap to 0, as 2^32 does.

### `Router` and the code

`known` is the set of addresses in the cache, `waiting` the queued packets with
next hop and interface, `sent` the frames the last step passed to
`sr_send_packet`. Each action is one call of `sr_handlepacket`, with everything
it calls; `Retry`, `GiveUp` and `Expire` are what the sweeper does. `Route` is the result
of `lpm_lookup` and the choice between gateway and destination; `Lpm` has the
lookup itself. A packet may arrive with any source and an ARP reply for any
address, the router's own included: the code tests neither, and a gateway may
send an error of the router back to it. Version, header length and checksum are
no part of a packet since the code looks at none of them. Queued packets form a
set, so two identical packets count once and `Retry` may take the interface of
any of them.

`nth` counts the errors in a row that led to a packet inside the router. A packet
received has 0, whatever it is: an ICMP error that arrives and cannot be
delivered is answered with an error, against what ICMP asks for, and
`ErrorChainEnds` bounds what follows from it without forbidding it.

### `Lpm` and `Checksum`

`Lpm` keeps the loop's variables under the code's names. Addresses and masks are
numbers in host order and any number may be a mask, as in the code.
`Checksum` is over bytes; a word is read from two bytes in the order of the host
where the code reads `uint16_t`, and put together from bytes where `cksum` does.
The model's sums are not cut to 32 bits: `LengthsAssumption` keeps messages below
128 KB, and `SumsFit` proves that no sum of the code then exceeds its variable.

## Runs

For the cache: two next hops `s` and `c`, two MAC addresses, both of which are claimed for
`s`; one sender of a waiting packet has a route and may or may not be in the
cache, one has no route.

| Run | Bounds | Result |
|---|---|---|
| `cache_safety` | 2 slots, 2 request cells, 3 packets, entries expire after 2 seconds, 5 tries | every safety invariant, `FateIsFinal` and `OvertakesOnlyInBatch` hold, about 2.5 million states |
| `cache_liveness` | 1 slot, 2 tries, one address per host | every packet is settled, every request freed, every entry expires, and `ArpCache` implements `ArpResolution`, its fairness included |
| `session` | 2 routers, one of them started with `-T` or with a route through an interface the switch lacks; a switch with two ports that may come back with one of them and another MAC, at any time; 1 frame from the switch, 1 per router on the way back | the invariants of the session and `ReadyOrGone` hold, about 490,000 states |
| `stream` | 2 threads, 4 messages of 3 to 5 octets, the length in 2 of them, at most 4 accepted, room for 5 | messages stay whole in all three streams, which implement `Channel`, its fairness included; about 109,000 states |
| `router` | 2 interfaces, 2 hosts, an address without a route, one address of the router behind a gateway; every source and destination; TTL 0 to 2; 2 waiting packets | every frame is accepted, TTL is right and errors about errors end, about 66,000 states |
| `lpm` | addresses of 3 bits, all tables of up to 3 prefixes in any order | the best route is found |
| `checksum` | bytes of 4 values, messages of 4 to 6 bytes, both byte orders | `cksum` is right everywhere, `ip_checksum` with `htons` on big-endian hosts and even lengths |
| `sha1` | blocks of 12 octets, length words of 16 values, messages of up to 33 octets in calls of any length | the padded message is hashed or failure reported, about 42,000 states |
| `doc_*` | as small as each needs | the statement named there is violated |

The bounds are enough for the cases that matter. Cache: two packets on one request and
one on another, so that requests and walks interleave; two slots, so that
duplicate entries, a full cache and reuse of a slot happen; the code's own
limit of 5 tries for the counters. The liveness runs use fewer tries because
the argument does not depend on the number, only on it being finite. Session:
routers meet only through the broadcast and the reactor, so two are enough; a
frame can arrive at every point of the handshake and after it. The switch can
connect any number of times. Stream: a message can be cut at every octet; one
is at the limit of the length and one above it; the room is for one message and
part of a second, so that writes wait with every number of octets left. Sha1:
four octets of a block are left for the message when the length is in it, so
every index of the block is met below, at and above the limit; a message of 32
octets makes both length words wrap.
Router: both interfaces, known and unknown next hops, own addresses on and off
the direct path and answered for by others, a packet and an error in the queue
together, an error given up. Checksum: four
values per byte give carries, sums of zero and odd lengths; no step of the
functions depends on the size of a byte.

Deadlock is not checked for the session and the streams: every process may have
ended, and a stream may be at its end.

### Fairness

`MainRuns` and `Sweeper` are weakly fair: the operating system schedules both
threads. `Tick` is weakly fair: time passes. `MainLocks` is strongly fair: the
mutex is free during a whole second of sleep in each round of the sweeper, and
a thread that waits for it gets it then. Nothing is assumed about the arrival
of packets or replies, so all liveness results hold when nobody ever answers.

In `VnsSession`, `Reads(c)` is weakly fair (a process that has something to read
reads it), and `Reactor(c)` is (the event loop serves every connection). Nothing
is assumed about starting routers, the switch, the POX thread, packets, hang-ups
or errors. `ReadyOrGone` counts `spin` as gone, and excuses only the clients in
`unanswered`: a router that waits for its routing table or its interfaces in any
other case leaves that wait.

In `VnsStream`, `Read` is weakly fair (the reader reads what there is), and so is
the rest of a write that has begun (the kernel wakes a writer when there is
room; a thread that has written a header goes on).

### Where the code and its documentation disagree

| Run | Statement | What happens |
|---|---|---|
| `doc_retry_limit` | `router/sr_arpcache.h:51` "ARP requests are sent every second until we send 5 ARP requests" | the main thread's unlocked `times_sent = 1` undoes what the sweeper counted |
| `doc_use_after_free` | `PROJECT_README.md:864` "Thread Safe - Proper synchronization for concurrent access" | a packet joins a request in its last second; the sweeper frees it before the main thread reads `times_sent` |
| `doc_assert_iface` | `router/sr_vns_comm.c:656` "assert(iface);" | a frame is broadcast to a router that has no interfaces yet, and the process aborts |
| `doc_main_checksum` | `PROJECT_README.md:225` "recalculates IP checksum (RFC 791 compliant)" | on a little-endian host `htons` swaps a sum that is already in memory order |

`AskedBounded` and `NoEarlyGiveUp` say what remains true in spite of the first:
never fewer than 5 and never more than 10 ARP requests before a give-up.
`MainVerifiesBig` says where the checksum of the main thread is right, and
`NoRouteMissed` what `lpm_lookup` does not find.

Other differences met while modelling, which follow from the modelled lines and
have no run of their own:

| Statement | The code |
|---|---|
| `PROJECT_README.md:253` "Sends ICMP Host Unreachable to all queued packets on timeout" | not to senders whose next hop is not in the cache (`Bounce`, `HostUnreachable`; `sr_arpcache.c:219`) |
| `PROJECT_README.md:249` "FIFO queue for packets awaiting ARP resolution" | packets are pushed and read at the head (`PushPacket`; `sr_arpcache.c:294`) |
| `router/sr_arpcache.c:306` "Inserts this IP to MAC mapping in the cache" | not when every slot is valid (`StoreMapping`; `sr_arpcache.c:336`) |
| `PROJECT_README.md:244` "Updates cache with IP→MAC mappings" | an older entry in a later slot hides the new one (`LookupSlot`; `sr_arpcache.c:239`) |
| `PROJECT_README.md:260` "Supports 0.0.0.0/0 as catch-all route" | a mask of 0 is never larger than the initial `best_mask` (`Better`; `sr_router.c:124`) |
| `PROJECT_README.md:223` "Validates IP version (IPv4 only), header length, and checksum" | none of the three is tested (`Receives`; `sr_router.c:485`) |
| `PROJECT_README.md:240` "Updates ARP cache with sender's mapping" | an ARP request is answered and not learned from (`ReceiveArpRequest`; `sr_router.c:184`) |
| `router/sr_vns_comm.c:124` "server sends the first message" | a packet can be broadcast before the greeting (`Accept`, `Greet`; `srhandler.py:119`) |
| `router/sr_vns_comm.c:70-73` "0 on success, something other than zero on error", of `sr_connect_to_server` | when the server has closed the connection, `recv` returns 0 for ever and the function does not return (`ReadEof`; `sr_vns_comm.c:351`) |
| `router/sr_dumper.h:63` "length this packet (off wire)" | the length stored is that of the part logged (`Captured`; `sr_vns_comm.c:632`) |
| `router/INSTRUCTIONS:77` "Your routing table (stored in rtable.vrhost) will be automatically updated" | the file is written, but without `-r rtable.vrhost` the router loads another one (`ReadRtable`; `sr_main.c:150`) |
| `router/INSTRUCTIONS:44-69`, output that ends in "Ready to process packets" | a router that connects before the switch never gets its hardware info (`HandleOpen`; `srhandler.py:136`) |

## Theorems

`ArpCacheProofs`, for every number of slots, packets, requests, tries (at least 2) and seconds,
from the two ASSUMEs of `ArpCache` only:

| Theorem | Establishes |
|---|---|
| `TypeCorrect` | `TypeOK` |
| `Ownership` | `RequestOwnership` |
| `QueueConsistent` | `ResolvedNotPending`, `OneRequestPerIP`, `PointerNotRecycled` |
| `RetriesBounded` | `AskedBounded`, `NoEarlyGiveUp` |

The inductive invariants are layers, each proved on top of the earlier ones.
`TypeInv` adds to the types what each thread's locals are at each point and
that the sweeper holds the mutex exactly when it is awake; without it nothing
can be said of the steps the two threads take at once. `OwnInv` adds who owns
each request. `PendInv` needs that the main thread, between its lookup and its
`queuereq`, cannot be overtaken by an insert: entries only vanish meanwhile.
`CountInv` relates `asked`, `times` and the sweeper's register to each other at
each pair of program points; the bound of `2 * MaxTries` comes from the fact
that only the thread that made a request new ever writes 1 to its counter.

`LpmProofs`, for every set of addresses, every table and every operation in the
place of bitwise AND, from the ASSUMEs of `Lpm`:

| Theorem | Establishes |
|---|---|
| `BestRoute` | `MostSpecific` |
| `NothingMissed` | `NoRouteMissed` |

Their invariant `LoopInv` says of the routes before `pos` what the properties
say of the whole table: `best` is the first of the largest masks among the
covering ones seen so far, or none has a mask other than 0.

The invariant also gives `LookupTyped` (`TypeOK`).

`ArpPacketProofs`, from the same ASSUMEs as `ArpCacheProofs`:

| Theorem | Establishes |
|---|---|
| `OneRequest`, `PointerSafe`, `GivesUpLate` | `OneRequestPerIP`, `PointerNotRecycled`, `NoEarlyGiveUp`, each by itself |
| `NoPacketLost` | `QueuedExactlyOnce` |
| `RightAddress` | `SentToClaimant` |
| `OneEnd` | `FateIsFinal` |
| `OrderAcrossBatches` | `OvertakesOnlyInBatch` |
| `Refinement` | `ArpCache` implements `ArpResolution!Safe` |

`PacketInv` is a fifth layer. It says which list holds each packet (`ListOK`,
`QueuedSomewhere`), what the main thread and the sweeper still hold of a list
they have begun to empty (`HeldOK`, `WalkOK`), that every entry of the cache was
claimed for its address, and that packets become known in their order. The
refinement needs it because `ArpResolution` settles all packets of a next hop in
one step, while the code empties the list one packet at a time: the mapping
counts a packet as answered from the moment its reply is accepted.

`VnsStreamProofs`, for every number of threads, messages, sizes and room, from
`SizeAssumption`:

| Theorem | Establishes |
|---|---|
| `StreamTyped` | `TypeOK` |
| `MessagesWhole` | `FramesWhole` |
| `GivesUpForReason` | `ClosedForReason` |
| `StreamIsChannel` | `VnsStream` implements `Channel!Safe` |

`StreamType` bounds what is in each buffer. `LineInv` says that, as long as no two
writes overlap, what the reader holds, what is in the connection and what the
writer has still to write are consecutive octets; without that one cannot tell
that the next octet read starts a message exactly when the reader expects a
length.

`RouterProofs`, for every table, set of interfaces and hosts and every TTL, from
the ASSUMEs of `Router`: `RouterTyped` (`TypeOK`), `NoFrameRefused`
(`FramesAccepted`), `ForwardedTtl` (`TtlDecreases`) and `ErrorsEnd`
(`ErrorChainEnds`). `RouterInv` carries what holds of a packet when it is
queued over to the frame that leaves later (`WaitingOK`, `SentOK`): the interface
is chosen when the packet is queued and the frame written when a reply comes. For
`ErrorsEnd` it says that what waits is a packet received or a first error, with an
address of the router as its source (`First`), so that a second error can only be
addressed to the router.

`VnsSessionProofs`, for every set of routers, switches and options, from the
ASSUMEs of `VnsSession`:

| Theorem | Establishes |
|---|---|
| `SessionTyped` | `TypeOK` |
| `ReadyTables` | `ReadyConsistent` |
| `AnnouncedOnly` | `InterfacesAnnounced` |
| `PacketsMapped` | `PacketOutKnown` |
| `TokenPassed` | `HandshakeToken` |

`SessionInv` has one formula per phase of a connection (`Outside`, `InAuth`,
`InStatus`, `InRun`): which steps of the handshake can be in either stream, and
that there is at most one. Broadcast packets may stand anywhere between them.
The messages on the way are typed by what the controller knows, since a switch
that connects again only adds names. The lemma `BuiltIsAnnounced` shows that the
loop of `sr_handle_hwinfo`, with the calls of `sr_if.c`, rebuilds every list of
ports exactly.

`Sha1Proofs`, for every message, block size above 8 and even number of values
of an octet, from the ASSUMEs of `Sha1`:

| Theorem | Establishes |
|---|---|
| `Sha1Typed` | `TypeOK` |
| `DigestOfMessage` | `ResultCorrect` |
| `LengthNeverWraps` | `LengthExact` |
| `DigestKept` | `DigestStable` |

`Sha1Inv` says that a context is taking input, done or misused (`Flags`), that
while it takes input the processed blocks and the filled part of the block are
the octets read so far (`Content`), and that what is left of the argument is the
end of what was offered (`Reading`). The lemma `Pad` shows octet by octet that
`SHA1PadMessage` makes the padded message of the standard of it, in one block or
two; `LengthDigits` that the eight octets it takes from two words are those of
the 64-bit length; `CountFact` that the words count exactly until the step that
sets `Corrupted`.

`ChecksumProofs`, for every number of values of a byte (at least 2) and every
length from 2 bytes to two times the values of a word:

| Theorem | Establishes |
|---|---|
| `HeadersTyped` | `TypeOK` |
| `SweeperRight` | `SweeperVerifies` |
| `MainRightBig` | `MainVerifiesBig` |
| `SumsFit` | no sum of `ip_checksum` or `cksum` needs more than 32 bits |

`FoldFact` shows that adding the carries keeps a sum modulo all ones,
`SumBounded` and `SumSame` what a sum of words is bounded by and that it depends
on its words only, and `SumVerifies` that the complement in the place of the
checksum makes the receiver's sum a multiple of all ones.

Where a proof needs induction over data (the loops of `Built`, `Fold` and
`SumWords`), it takes the least counterexample: the library's theorem that the
natural numbers are well-founded speaks of sets, and the set of counterexamples
is one.

Not proved, model-checked only: the liveness properties `EveryPacketSettled`,
`EveryRequestFreed`, `EveryEntryExpires` and `ReadyOrGone`, and the fairness that
`ArpResolution` and `Channel` state on top of their `Safe` parts
(`ImplementsResolution`, `ImplementsChannel`): the prover handles neither
fairness nor ENABLED.

## Not modelled

* `sr_arpcache_dump` and the print functions, the Mininet scripts and the web
  servers only produce output or start programs. `sr_arpcache_destroy` is never
  called while the router runs.
* The compression function of SHA-1: arithmetic on words with nothing to
  interleave and no condition.
* The end of the process: `sr_destroy_instance` closes the log file while the
  sweeper may still write to it; what that does is undefined, and the process
  ends right after it.
* `_handle_close_msg` of the controller needs VNSCLOSE or a message of an unknown
  type, which no router sends.
* What a reader does with octets it takes for a length by mistake, after two
  writes have overlapped: anything can follow, so no property speaks of it.
* `Router` and `ArpCache` are not composed into one specification: `ArpCache`
  has every access of the handlers to the cache already, and what a frame holds
  does not influence the cache beyond its next hop.

## Plan

Done: the modules above, a run for each, and a theorem for each of their
safety properties.

Left:

1. `ArpCache` and `Router` share the handlers; a theorem that the set of known
   addresses of `Router` is what `ArpCache` lets a handler see would join them.
2. `VnsSession` takes its streams for channels; a module that puts `Channel` in the
   place of `down` and `up` would state that once.
