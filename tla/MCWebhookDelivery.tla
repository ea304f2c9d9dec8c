-------------------------- MODULE MCWebhookDelivery --------------------------
EXTENDS WebhookDelivery
==============================================================================
