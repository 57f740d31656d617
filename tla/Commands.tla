------------------------------ MODULE Commands ------------------------------
(***************************************************************************)
(* The argument lists that the functions of redis_async::cmd build.  The   *)
(* name of a command is one byte here.  A function that throws builds      *)
(* nothing: its set is empty.                                              *)
(***************************************************************************)
EXTENDS Serializer
LOCAL INSTANCE SequencesExt

Fixed(name, args) == {<<<<name>>>> \o args}

\* Functions that take a list throw client_error when it is empty.
Listed(name, args, items) ==
  IF items = <<>> THEN {} ELSE Fixed(name, args \o items)

\* A range of pairs is appended pair by pair.
Pairs(kvs) == FlattenSeq(kvs)

UpdateType(type) ==
  CASE type = "exist" -> <<<<"XX">>>>
    [] type = "not_exist" -> <<<<"NX">>>>
    [] type = "always" -> <<>>

\* SET: the expiry, if there is one, and then the update type.
Set(key, value, type, ttl) ==
  Fixed("SET", <<key, value>> \o (IF ttl > 0 THEN <<<<"PX">>, DecimalText(ttl)>> ELSE <<>>)
               \o UpdateType(type))

\* ping without a message (a null string_view) has no argument.
Connection(msgs) ==
  Fixed("PING", <<>>) \cup UNION {Fixed("PING", <<m>>) \cup Fixed("ECHO", <<m>>) : m \in msgs}

Keys(k, new, ks, kvs, ttl) ==
  Fixed("GET", <<k>>) \cup Listed("MSET", <<>>, Pairs(kvs)) \cup Listed("MGET", <<>>, ks)
  \cup Listed("DEL", <<>>, ks) \cup Listed("EXISTS", <<>>, ks)
  \cup Fixed("EXPIRE", <<k, NumberText(ttl)>>) \cup Fixed("PEXPIRE", <<k, NumberText(ttl)>>)
  \cup Fixed("TTL", <<k>>) \cup Fixed("PTTL", <<k>>)
  \cup Fixed("RENAME", <<k, new>>) \cup Fixed("KEYS", <<k>>)

Hashes(k, fs, kvs) ==
  Listed("HSET", <<k>>, Pairs(kvs)) \cup Listed("HMSET", <<k>>, Pairs(kvs))
  \cup Listed("HDEL", <<k>>, fs) \cup Listed("HMGET", <<k>>, fs)
  \cup UNION {Fixed("HGET", <<k, fs[i]>>) : i \in DOMAIN fs} \cup Fixed("HKEYS", <<k>>)

Lists(k, es, start, stop) ==
  Listed("LPUSH", <<k>>, es) \cup Listed("RPUSH", <<k>>, es)
  \cup Fixed("LPOP", <<k>>) \cup Fixed("RPOP", <<k>>) \cup Fixed("LLEN", <<k>>)
  \cup Fixed("LRANGE", <<k, NumberText(start), NumberText(stop)>>)
  \cup Fixed("LTRIM", <<k, NumberText(start), NumberText(stop)>>)
  \cup Fixed("LINDEX", <<k, NumberText(start)>>)
  \cup UNION {Fixed(name, <<k, NumberText(start), es[i]>>) :
                name \in {"LSET", "LREM"}, i \in DOMAIN es}

\* SPOP has a count only when it is positive.
Sets(k, ms, count) ==
  UNION {Listed(name, <<k>>, ms) :
           name \in {"SADD", "SREM", "SDIFFSTORE", "SINTERSTORE", "SUNIONSTORE"}}
  \cup UNION {Listed(name, <<>>, ms) : name \in {"SDIFF", "SINTER", "SUNION"}}
  \cup Fixed("SCARD", <<k>>) \cup Fixed("SMEMBERS", <<k>>)
  \cup Fixed("SPOP", IF count > 0 THEN <<k, NumberText(count)>> ELSE <<k>>)
=============================================================================
