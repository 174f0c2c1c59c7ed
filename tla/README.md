# TLA+ models of containerdns-c (kdns)

This directory holds TLA+ models of the concurrent and stateful parts of the
kdns DNS server in `src/`. It also holds the TLC configurations that check
them. Every module is translated from the C source. `PROJECT.json` maps each
definition to the lines it models.

## The system and how its parts interact

kdns is a DPDK application with one process and several lcores. Each lcore
runs its own packet loop over its own copy of the zone database.

* **Replication fan-out** (`src/src/domain_update.c`). A REST handler
  (`domaindata_parse`) turns an add or delete request into a message. It
  enqueues the message on the master core's `rte_ring` and replies "OK" right
  away. The master (`doman_msg_master_process`) handles each message as
  follows:
  1. It drops the message when `g_domain_num` is above the threshold.
  2. Otherwise it clones the message onto every slave ring. A full ring drops
     its copy.
  3. It hands a copy to the TCP core's database.
  4. It applies the message to its admin hash table (`domain_list_ops`), which
     has 0x3FFFF + 1 buckets and a count.

  Each slave (`doman_msg_slave_process`) drains its ring into its own
  database. `domains_get` lists the admin table under its read lock.
* **Forwarding cache** (`src/src/forward.c`). The packet loop hands each
  query for a forwarded zone to `dns_handle_remote`, which puts it on
  `fwd_pkt_to_process_ring` or frees it when the ring is full. Several
  forwarding threads consume the ring. Each thread does the following:
  1. It looks the query up in one cache shared by all threads, guarded by one
     `rte_rwlock` (`fwd_cache_lookup`).
  2. On an expired hit, it pushes the entry's expiry 60 s on while it holds
     only the read lock.
  3. It asks the upstream servers in turn.
  4. On an answer, it deletes the expired entry and inserts the new one, taking
     the write lock for each step separately.
  5. When every server fails, it replies with the stale copy.
  6. It puts the reply on `master_fwd_pkt_ex_ring`, or frees the packet when
     there is no reply or the ring is full. The master takes replies off
     that ring in bursts with `fwd_pkts_dequeue`.

  A sweep thread wakes every 600 s and deletes entries that expired more than
  3600 s ago, one shard of buckets per wake-up.
* **Message encoder** (`src/core/packet.c`). Each core encodes its answers
  into the response buffer. `do_dname_data_encode` handles name compression
  through the `compressed_offset` kept on each domain node. `packet_encode_rr`
  rolls back a record that does not fit into `maxMsgLen`.
  `packet_encode_rrset` rotates the answer RRset's start by a process-wide
  `static int round_robin_off`. When an answer or authority RRset does not fit,
  it rolls the RRset back whole and sets TC. On the way in,
  `packet_read_query_section` decodes the question: it walks the name's
  length octets, then reads QTYPE and QCLASS.
* **Vendored DPDK drivers** (`src/dpdk-17.02/drivers/`). kdns runs on DPDK,
  and the tree carries four drivers with their own state machines:
  - the crypto scheduler PMD (`crypto/scheduler/scheduler_pmd_ops.c`), which
    starts, stops and closes a set of slave crypto devices and creates one
    session on each slave per scheduler session;
  - the null crypto PMD (`crypto/null/null_crypto_pmd.c`), whose queue pair
    passes operations through a ring and takes session objects from a pool;
  - the Solarflare port (`net/sfc/sfc_port.c`), whose start is a ten-step
    sequence with a goto ladder that undoes the steps taken;
  - the qede MAC, VLAN and VXLAN filters (`net/qede/qede_ethdev.c`), which
    keep shadow lists and counts of the filters given to the firmware, and
    its receive-side scaling, which keeps local copies of the hash
    configuration and redirection table (RETA) for the query calls.

  The library each driver calls (cryptodev, efx, ecore, ethdev) is not in this
  tree. It is modelled as an environment whose calls succeed or fail.
* **TCP front-end** (`src/src/tcp_process.c`). `main.c` starts one TCP
  thread (`dns_tcp_process_init`) and then runs `process_master`. The thread
  opens its own database `kdns_tcp.db` and sleeps 30 s. It then listens on
  port 53 and serves one connection at a time:
  1. `accept`, then `recv`. A failure of either continues the loop.
  2. `query_process` looks the query up in `kdns_tcp.db`.
  3. If the table has the name, the answer is sent behind a 2-octet length.
  4. Otherwise (`RCODE_REFUSE`), `dns_handle_tcp_remote` forwards it. It opens
     one upstream socket with 2 s timeouts and tries each server of the zone
     with `connect`, `send` and `recv` on that one socket. It then sends the
     first reply to the client, after replacing its length prefix.

  The master thread's fan-out writes every admin update into `kdns_tcp.db`
  (`tcp_domian_databd_update`).
* Not modelled: start-up and signals (`main.c`), apart from the order in which
  the TCP thread and the master start. The reasons are under "Not modelled"
  below.

## Modules

| module | models | state | actions |
|---|---|---|---|
| `DomainUpdate` | domain_update.c fan-out | `masterRing`, `slaveRing[s]`, `adminChains[bucket]` (a chain, head first), `domainNum`, `tcpDb`, `slaveDb[s]`, `inFlight` (the message the master has dispatched and not yet stored), ghost `lost[s]`, `getResult` | `DomainDataParse` (REST add/del, then enqueue or drop), `MasterDropOverThreshold`, `MasterDispatch` (clone to every slave, TCP copy), `MasterStore` (`domain_info_store`: `domain_list_ops` under the write lock, a step of its own so that slaves and GETs run between the two), `SlaveProcessMsg`, `DomainsGet`, `DomainGet` (GET of one domain) |
| `FwdSweep` | sweep cursor of `thread_fwd_cache_expired_cleanup` | `lastIdx`, ghost `covered` | `SweepWake` |
| `FwdCache` | forward.c: the two rings, the forwarding threads, the cache and the sweep | `cache[key]` = version and expiry, `now`, `upstream[key]`, `lastIdx`, `procRing` and `exRing` (query numbers), `qkey`, `delivered`, `freed`, per thread `pc`, `tq` (its etm), `srv` (loop index), `status`, `data` (the copy the lookup made), `fetched`, `answer`; ghost `highWater` | `DnsHandleRemote`, `LookupFind` (ring dequeue and lookup), `LookupPush` (the write under the read lock), `UpstreamAnswer`, `UpstreamTimeout`, `UpstreamFail`, `CacheDel`, `CacheInsert`, `ThreadReply`, `FwdPktsDequeue`, `SweepShard` (uses `FwdSweep`'s shard operators through INSTANCE), `Tick`, `UpstreamChange` |
| `FwdZones` | forward.c zone policy | `status` (start-up outcome), `zones` (`zones_fwd_addrs`), `default` (`default_fwd_addrs`), `routed` (the last lookup) | `RemoteSockInit` (`ResolveDnsServers` for the default, then `ParseDnsFwdZones` over the `%`-separated list), `RouteQuery` (`FindZoneFwdAddrs`) |
| `PacketEncode` | packet.c encoder | `pos`, `buf` (the name tokens, each a label or a pointer at an offset), `off[node]` (`compressed_offset`), `tc`, `rrOff` (`round_robin_off`), `maxAnswer`, flag `oob`, ghost `rolledBack` | `StartResponse`, `EncodeNext` (one whole `packet_encode_rrset` call, computed by the recursive operators `DnameEncode`, `EncodeRR`, `EncodeLoop` and `EncodeRRset`) |
| `PacketDecode` | packet.c question decoder | `req` (the question section up to the buffer's limit), `stale` (the octet an earlier packet left after it), `query` (the decoder's result: name, type, class, position, or failure) | `Receive` applies `ReadQuerySection`, the loop `ScanName` with its test `LabelRejected`, and `ReadU16`. The reference is `Question`, RFC 1035's grammar (`IsName`) |
| `CryptoScheduler` | scheduler_pmd_ops.c | `devStarted`, `attached`, `schedRunning`, `slaveRun[s]`, `qpCtx[q]`, `reorderBuf[q]`, `privQp[q]`, `ctxFreed`, flag `doubleFree`, `sess[s]` | `SchedulerPmdStart` (each failure point an input), `SchedulerPmdStop`, `SchedulerPmdClose`, `SchedulerPmdQpSetup`, `SchedulerPmdQpRelease`, `SchedulerPmdSessionConfigure` (recursive `ConfigSlaveSess` with its clean-up call), `SchedulerPmdSessionClear` |
| `NullCryptoQP` | null_crypto_pmd.c queue pair | `inRing`, `poolFree`, the three `qp_stats` counters; ghosts `accepted`, `lastBurst` | `NullCryptoPmdEnqueueBurst` (recursive `EnqueueLoop` over a burst of operation kinds), `NullCryptoPmdDequeueBurst`. Its names carry a `Null` prefix (`NullInit`, `NullNext`, `NullSpec`, `NullTypeOK`, `nullVars`) so that `MC_Crypto` can extend it beside `CryptoScheduler` and run either, chosen by `mode` |
| `SfcPort` | sfc_port.c | device rx flags, `port->promisc/allmulti`, the NIC filter, `dev_link`, statistics buffer and DMA, the set of NIC resources held, `started` | `SfcPortInit`, `SfcPortFini`, `SfcPortStart` (failure step an input, undone by `ReleasedFrom`; the copy of ethdev's rx flags into the port, `SfcRxFlagCopy`, happens only once the start reaches it; the link mode is translated by `SfcPortLinkModeToInfo`, where unknown and half-duplex modes give `link_duplex` 0, `ETH_LINK_HALF_DUPLEX`), `SfcPortStop`, `SfcPortUpdateMacStats`, `SetDevRxFlags` (ethdev) |
| `QedeMacFilter` | qede_ethdev.c MAC, VLAN and tunnel filters | `ucList`/`numUc`, `mcList`/`numMc`, firmware tables `hwUc`, `hwMc`, `hwVlans`, ethdev's `rteMacs`, `numTunn`, `vxlanType`, `vxlanOn`, `vlanList`, `configuredVlans`, `acceptAnyVlan`; ghosts `tunnKeys`, `appVlans` | `QedeMacAddrAdd`, `QedeMacAddrRemove`, `QedeMacAddrSet`, `QedeVxlanTunnConfig` (through `QedeMacIntOps` or straight to `QedeUcastFilter`, then `ConfigAcceptAnyVlan`), `QedeVxlanTunnRefused`, `QedeVlanFilterSet`, `QedeVlanOffloadSet` (both through `VlanFilterSet`) |
| `TcpFront` | tcp_process.c | `pc` (start, sleep, accept, exit), `dbOpen`, `db` (the names in `kdns_tcp.db`), `behaviour[i]` (what upstream server i does: refuse, unreachable, accept then stay silent, answer), per client `conn`, `asked`, `reply` (the frame the client reads), `leaked` (client sockets never closed), `sentUpdates` | `TcpDbOpen` (memset, `domain_store_open` or exit, zones), `TcpListen` (sleep, bind and listen or exit), `MasterTcpUpdate`, `ClientConnect`, `TcpAcceptFail`, `TcpRecvFail`, `TcpAnswer`, `TcpForward` (`DnsHandleTcpRemote` with the recursive failover `TryServers` over one socket and `ForwardReply`). `MC_PacketEncode` runs it as a third mode |
| `QedeRss` | qede_ethdev.c RSS | firmware `hw[h]` (enable bit, hash capabilities, key, RETA of each hardware function), `rssEnable`, `indTable` (`rss_ind_table`), `confHf`, `confKeyLen`, `keyBuf` (the malloc'ed `rss_conf.rss_key`), flag `keyOverrun`, `call` (the last call and what it returned) | `ConfigRss` (`QedeConfigRss`: the hash update, then `DefaultReta`), `RssHashUpdate` (`QedeRssHashUpdate`, `QedeInitRssCaps`), `RssRetaUpdate` (`QedeRssRetaUpdate`), both through `VportUpdate` over the hardware functions; `RssHashConfGet`, `RssRetaQuery`. `MC_QedeMacFilter` runs either the filters or RSS, chosen by `mode` |

Every `MC_*` module gives the constants for one module: model values for
slaves, domains, hosts, threads, keys and domain-tree nodes, and hash values
chosen so that keys collide in one bucket or land in the last bucket.

## Runs

| run | result | what it shows |
|---|---|---|
| `domain_update` | pass | The admin chains hold each key once, in its own bucket, and `g_domain_num` equals the number of chain nodes. The ring of a slave that lost nothing, replayed onto its database, gives the admin table with the one mutation the master has dispatched and not yet stored (`inFlight`): the clones are enqueued before `domain_info_store`, so a slave may run one mutation ahead. Every such slave eventually equals the admin table. |
| `domain_delete_threshold` | violation | Past the threshold, deletes are dropped too, so the table never shrinks. |
| `fwd_cache` | pass | Every query packet is in exactly one place: a ring, a thread, the master, or freed (`NoQueryLostOrDuplicated`). Every queued query is eventually replied or freed (`QueryResolved`). When every upstream server fails, the reply is the stale copy whenever there was one. |
| `fwd_cache_regress` | violation | Two refreshers of one expired entry can delete the newer answer and re-insert the older one. |
| `packet_encode` | pass | The message stays within 512 bytes. A truncated answer or authority RRset leaves nothing. In the same state graph (`MC_Spec`: a behaviour either decodes one request or encodes responses, since the two share no state in the model), `DecoderMatchesReference` says the question decoder returns exactly what the reference grammar returns, for every request of up to 8 octets and whatever octet lies past it. The third mode is the TCP front-end. This run fires its actions under `TypeOK`; what is wrong in it is shown by `tcp_failover` and by the kept TCP cfgs below. The encoder violation runs use `MC_EncodeSpec`, the encoder alone. `tcp_failover` uses `MC_TcpSpec`. |
| `packet_encode_rollback` | violation | After a rollback, a stale `compressed_offset` gives a pointer into discarded bytes. In the trace, it is a pointer to itself. |
| `tcp_failover` | violation | The first upstream server accepts and stays silent and the second answers. The loop's `connect` of the same socket to the second server fails with EISCONN, so the client gets nothing. spec.md section 7(3) says failover tries every upstream. |
| `crypto_scheduler` | pass | `dev_started` implies every slave attached and started. A session configure that fails on one slave leaves no slave session. The run is of `MC_Crypto`, whose second mode runs the null PMD's bursts under `NullTypeOK`. |
| `null_crypto` | violation | A sessionless operation whose transform is refused takes a `sess_mp` object, one more is served, and the next is refused with room left on the ring: nothing returns the objects to the pool. |
| `sfc_port` | pass | A failed start or a stop holds no NIC resource. The statistics DMA never targets freed memory. A successful start programs the NIC filter from ethdev's promiscuous and all-multicast flags as they are at that start (`RxModeFollowsDevice`), however they changed while the port was stopped. |
| `qede_filters` | pass | With MAC, tunnel and VLAN calls and firmware commands that may fail, the shadow lists match their counters and hold no duplicate. In the RSS mode, hash and RETA updates, `qede_config_rss` and the queries are made, with firmware and malloc failures, on a device with one hardware function. The hardware keeps the enable bit, the RETA and, while enabled, the hash capabilities of the driver's local copy (`RssShadowMatchesHw`). |
| `fwd_zone_route` | violation | With the zone `b` declared before its subzone `a.b`, `find_zone_fwd_addrs` sends a query for `a.b` to `b`'s servers. spec.md 4.3 asks for the longest matching suffix. |

More defects were confirmed with TLC while modelling. Each of the
properties below is stated in its module and is violated when checked on its
own. They have no run of their own, because the project keeps one violation
run for each of the six defects that matter most to the DNS server.
`PROJECT.json` lists them as hazards, each with its counterexample:

* `RRIndexInBounds` (PacketEncode, `MC_PacketEncode_Robin.cfg`): when
  `round_robin_off` wraps to INT_MIN, the start index becomes 65535 and the
  second loop reads past `rr_count`.
* `ClientSocketsClosed` (TcpFront, `MC_PacketEncode_TcpLeak.cfg`): a failed
  `recv` continues the accept loop without closing the client's socket.
* `ForwardedMessageIntact` (TcpFront, `MC_PacketEncode_TcpMessage.cfg`): the
  forwarded reply's prefix is `retfwd`, two more than the message. The
  client reads the upstream message and then two zero octets, or only the
  first segment of a reply that came in several.
* `TcpDbHasUpdates` (TcpFront, `MC_PacketEncode_TcpStartup.cfg`): an admin
  update the master hands over before `domain_store_open` returns meets a
  NULL table and is missing from the TCP database for good.
* `RteMacsFiltered` (QedeMacFilter, `MC_QedeMacFilter_Readd.cfg`): after
  `mac_addr_remove`, re-adding the address gets `-EEXIST` from the stale
  shadow entry, and the NIC drops an address that ethdev lists.
* `RetaUnmaskedKept` (QedeRss, `MC_QedeRss_Unmasked.cfg`): a RETA update
  whose mask leaves an entry out moves that entry to queue 0, because
  `qede_rss_reta_update` builds the table in a zeroed `params`.
* `RssKeyWithinAllocation` (QedeRss, `MC_QedeRss_Key.cfg`): the key buffer is
  malloc'ed with the first enabling update's key length, here 0. A later
  update with a 2-octet key `memcpy`s past it.

* `ListingComplete` (DomainUpdate): `domains_get` skips bucket 0x3FFFF.
* `FullPassCoversTable` (FwdSweep): with the real constants, bucket 0x3FFFF is
  never swept.
* `StoppedMeansSlavesStopped` (CryptoScheduler): a start that fails at a later
  slave leaves the earlier ones running, and stop returns early.
* `CloseFreesOnce` (CryptoScheduler): a second close frees `private_ctx`
  again.
* `EnqueuedCountExact` (NullCryptoQP, `MC_NullCryptoQP_Count.cfg`): the
  enqueue error path leaves the operations it did enqueue out of
  `enqueued_count`.
* `UcastTableBounded` (QedeMacFilter, `MC_QedeMacFilter_Ucast.cfg`): tunnel
  filters with the TENID bit skip the `num_mac_addrs` check, and the unicast
  list grows past the device's MAC slots.
* `VlanFiltersTracked` (QedeMacFilter, `MC_QedeMacFilter_Vlan2.cfg`, two VLAN
  filter slots): after a failed remove, the re-add of the same VLAN counts it
  again, so `configured_vlans` is 2 for one firmware filter.
* `RssShadowMatchesHw` (QedeRss, `MC_QedeRss_Cmt.cfg`, two hardware
  functions): a RETA update that fails on the second engine leaves the first
  steering by the new table, and `rss_ind_table` keeps the old one.
* `VxlanOnIffTunnelFilter` (QedeMacFilter): a VXLAN outer-MAC delete takes the
  shadow entry of a plain MAC address, and `num_tunn_filters` wraps from 0 to
  65535.
* `HwVlansListed` (QedeMacFilter): a failed VLAN remove leaves a firmware
  filter that is on no list and can never be removed.
* `AcceptedVlansReceived` (QedeMacFilter): at the VLAN filter limit,
  `qede_vlan_filter_set` returns 0 even when turning accept-any-VLAN on
  failed.

Every property of a passing run has a mutant in `PROJECT.json`: a plausible
bug in the mapped definition that TLC finds.

## Bounds and abstractions

* **DomainUpdate.** The model has 2 slaves, 2 domains × 2 hosts, ring
  capacity 1, threshold 1 and 4 requests. With ring capacity 1, drops happen
  early. A threshold of 1 lets the drop branch run. The collision hash puts
  both domains in one bucket, so the search and the unlinking in
  `domain_list_ops` walk real chains.
* **FwdCache.** The model has 2 threads, 4 buckets and shards of 2.
  - The passing run has one key, in bucket 0, so the sweep reaches it. Its
    zone has two upstream servers, and there are 3 queries. The process ring
    has 1 slot, so the third query can find it full. The exchange ring has 2
    slots and the master's burst is 2, so a full exchange ring and a burst
    with fewer replies than requested both happen. The state space with
    liveness is near the 5-minute limit with 4 queries or 2 keys.
  - The regress run has 2 keys and no fairness, because it checks an
    invariant.
  - Time is counted in units of the 60 s lifetime. Retention is 1 unit.
  - The clock ticks only while no thread is mid-query. A forwarded query takes
    at most the upstream timeouts, seconds, far less than one unit.
  - A cache entry is the version of the upstream answer it holds, so a
    regression is visible.
* **FwdZones.** Strings are sequences of characters over `a`, `b` and `.`,
  since the parse and the suffix test work on characters. An upstream
  address is one character, and `getaddrinfo` is not modelled. Two
  configurations are enough: a zone declared before its subzone, and the
  reverse order. The reference `LongestSuffixZone` compares whole characters
  as the code does. A label-boundary match (`b` also matches `ab`) is a
  separate question: spec.md does not say whether suffixes are matched by
  label. The parse also has two outcomes that end the process: a token
  without `@` exits, as the exit conditions of spec.md allow. An empty token (`%%`, or a leading
  or trailing `%`) leaves `g_fwd_zone_num` above the number of tokens, and
  `resolve_dns_servers(NULL, NULL)` then faults. `ParseDnsFwdZones` returns
  `"crash"` for that case. No run checks it, because it only affects start-up.
* **FwdSweep.** It is written for the real `FORWARD_HASH_SIZE` and
  `FORWARD_CACHE_TIME_OUT_SCAN_NUM`. `FwdCache` runs its shard operators with
  small values.
* **PacketEncode.** The domain tree is under example.com, with the real label
  lengths. `maxMsgLen` is the real UDP value of 512, and 201-byte TXT records
  make truncation happen.
  - The compression pointer keeps the real 14 bits, and `round_robin_off` the
    real 32-bit width in the passing run.
  - The robin cfg scales the int to 3 bits so that it wraps within five
    responses. The arithmetic (wrap, C remainder, uint16 cast) is the same.
  - `CHECK_DEADLOCK FALSE`: the only stop is the bound on responses.
* **TcpFront.** The model has two clients, two names (one in the zone, one
  that only an admin update adds) and two upstream servers. Each server
  behaves in one of four ways, so every pair of behaviours (16) is checked.
  The abstraction is as follows:
  - the octets are a length prefix and an opaque message;
  - an answering server's reply arrives in segments, so `recv` returns any
    length from 1 to the whole frame;
  - `socket`, `setsockopt`, `accept`, `recv`, `bind` and `listen` may fail
    (`SysMayFail`);
  - `query_process` is reduced to whether the name is in `kdns_tcp.db`.
  The failover cfg leaves the `unreachable` behaviour and system-call
  failures out, so that its trace shows only the EISCONN path.
  In the other two modes, `IdleTcp` fixes the servers' behaviour, because
  those modes never read it.
* **PacketDecode.** `MAXDOMAINLEN` is scaled to 3, and requests have up to 8
  octets over the values {0, 1, 2, 192}. With these values each test of the
  decoder decides some request:
  - a name of 4 octets (`2 a a 0`) followed by 4 octets passes the end tests
    and is refused by `MAXDOMAINLEN`. The loop's test refuses it first; the
    final length test would refuse it too, so each of the two tests covers
    the other;
  - an empty question (no octet after the header) makes the loop read the
    octet past the request as a length. A label length past the end (a
    one-octet request `1`) is refused at `packet.c:170` before the `memcpy`;
  - 192 is a compression pointer.
  The memory past the request is one octet of any value. A correct decoder
  never reads further, and a read further shows as `"oob"`.
* **CryptoScheduler.** The model has 2 slaves and 2 queue pairs, with
  reordering on. Two slaves are the least for a failure after a success in
  the start loop and in the session loop.
* **NullCryptoQP.** Ring capacity is 2, the pool holds 2 objects, bursts have
  up to 2 operations and there are 6 calls. With this, both a full ring and
  an empty pool cut a burst short.
* **SfcPort.** Every step of the start sequence can fail. The link mode ranges
  over all `efx_link_mode_t` values.
* **QedeMacFilter.** The model has one unicast address, two multicast
  addresses, a zero address for VNI filters, two tenant ids, VLAN ids 0 and
  1, and one VLAN filter slot, so the second VLAN reaches the limit. There
  are 4 calls.
  - `num_mac_addrs` is 3 and `ECORE_MAX_MC_ADDRS` is 1, so the multicast limit
    is reached, and four calls can put a fourth entry on the unicast list.
  - With one VLAN slot, a re-add after a failed remove meets the limit and
    turns accept-any-VLAN on instead of counting the VLAN twice. Two slots
    (`MC_QedeMacFilter_Vlan2.cfg`) show the double count, so the run keeps
    `VlanFiltersTracked` out.
  - Tunnel requests range over every classified rte type combination and one
    that is refused.
  - The readd run turns firmware failure and tunnel requests off, so its
    trace shows the `mac_addr_remove` defect and not a failed command or the
    tunnel-delete defect.
* **QedeRss.** The RETA has 2 entries for 128, and there are 2 rx queues.
  The key is 4 octets for 40. Callers pass key lengths 0, 2 and 5, so the
  too-long refusal and the growing-key overrun both occur. `reta_size` is 2
  or 3 (over the limit). Hash types are none, IPv4, and IPv6_EX, which shares
  the IPv6 capability. There are 3 calls and one hardware function.
  - Firmware commands and the key's malloc may fail.
  - A second hardware function (`NumHwfns = 2`, `MC_QedeRss_Cmt.cfg`) breaks
    `RssShadowMatchesHw` through a failure on the second one. The run has
    one, so `RssShadowMatchesHw` is stated for single-engine devices, and
    the hazard at `qede_ethdev.c:1592` records the CMT case.
* `CHECK_DEADLOCK FALSE` in the `MC_Crypto`, `NullCryptoQP` and
  `QedeMacFilter` runs: the only stop is the null PMD's and the qede call
  bound. `SfcPort` can always take another step, so its run checks deadlock.

## Fairness

`DomainUpdate` assumes weak fairness of the master's actions (`MasterStore` included) and of each
slave's dequeue. The master and slave loops poll their rings forever
(`doman_msg_master_process` and `doman_msg_slave_process` are called from the
lcore main loops). The driver modules check only safety, and assume no
fairness. `FwdCache` assumes weak fairness of each forwarding thread's steps
and of the master's `fwd_pkts_dequeue`. Each thread runs `while (1)` and polls
its ring with `usleep(10)`. None of its steps waits on anything but the cache
lock, which `ReadLockFree` models. The failover loop ends after
`servers_len` tries, because each socket has a 2 s receive timeout. The
packet loop, the sweep and the clock get no fairness. `QueryResolved` needs
none of them. `TcpFront` checks only safety and assumes no fairness. Its thread
blocks in `accept` until a client comes, so no step of it is bound to
happen.

## Not modelled (yet)

* The caller of `dns_handle_remote` and `fwd_pkts_dequeue` (the lcore packet
  loop) is not in this tree. The model lets any query arrive at any time, and
  the master dequeue with a fixed burst.
* The sweep's heap-level chain walk is planned. Its `pre` pointer is left
  dangling after consecutive head deletions.
* The 14-bit pointer limit in TCP responses is planned.
* In the TCP front-end, `domaindata_update` and `query_process` are not in
  this tree. An update is one name added to a set, applied in one step, and
  an update on the NULL table before the open is lost. The master's write
  races the TCP thread's read with no lock; that is a data race inside
  `domaindata_update` and is not modelled. `DomainUpdate` keeps the TCP copy
  as a set that the master updates atomically. The blocking socket calls are
  modelled by their outcomes, and the 2 s timeouts by the `silent` and
  `unreachable` behaviours.
* The error paths of `domains_get` and `domain_get` when `json_array()`
  fails are not modelled. They release a read lock they never took, which
  leaves the rwlock looking write-locked for good.
* Start-up, configuration and signals are sequential I/O. Only the start
  order of the TCP thread and the master is modelled, in `TcpFront`.
* The drivers' data paths: register and descriptor programming, and the
  scheduler's mode-specific enqueue files, which are not in this tree. The
  rest of qede (VLAN stripping, link, statistics) only forwards to
  ecore.
* `qed_update_rss_parm_cmt` (ecore) decides the RSS enable bit on a CMT
  device. It is a free choice in `QedeRss`.
* The firmware filter tables are modelled by what a command does, not by
  ecore's code, which is not in this tree. A multicast command replaces the
  set by the list it is sent.
