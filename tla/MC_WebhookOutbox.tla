------------------------- MODULE MC_WebhookOutbox -------------------------
EXTENDS WebhookOutbox

MCOneEvent   == [j \in Jobs |-> "invoice.created"]
MCConfigs    == {{}, Events}
MCNoConfigs  == {}
=============================================================================
