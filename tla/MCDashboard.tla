---------------------------- MODULE MCDashboard ----------------------------
EXTENDS Dashboard

ServicesValue ==
    {"api-gateway", "content-service", "ai-processing-service",
     "analytics-service", "notification-service"}
=============================================================================
