-------------------------- MODULE MCKafkaInjector ---------------------------
EXTENDS KafkaInjector
CONSTANTS cpu, mem

SomeSeries == {cpu, mem}
TwoTopics == {<<mem, cpu, cpu>>, <<mem, mem, cpu>>}
EveryMode == {"oldest", "reset", "time", "newest"}
=============================================================================
